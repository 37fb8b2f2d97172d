------------------------------- MODULE Events -------------------------------
(***************************************************************************)
(* The buffered event channel every Injector owns (internal/inject,        *)
(* inject.Event): producers hand events over with TrySend, which never     *)
(* blocks the request path, and the CLI drains the channel concurrently.   *)
(***************************************************************************)
EXTENDS Naturals, Sequences

CONSTANT EventBuffer   \* capacity of the channel (256 in both injectors)

ASSUME EventBufferAssumption == EventBuffer \in Nat \ {0}

\* TrySend with the capacity test off by one: the last slot is never used.
TrySendOffByOne(buf, ev) ==
    IF Len(buf) + 1 < EventBuffer THEN Append(buf, ev) ELSE buf

\* Events appended to a slice in place of a bounded channel.
TrySendUnbounded(buf, ev) == Append(buf, ev)

\* The non-blocking send: the event is dropped when the buffer is full.
TrySend(buf, ev) == IF Len(buf) < EventBuffer THEN Append(buf, ev) ELSE buf

=============================================================================
