---------------------------- MODULE EventsProofs ----------------------------
(***************************************************************************)
(* What TrySend does to the channel, for every capacity and every type of  *)
(* event.                                                                  *)
(***************************************************************************)
EXTENDS Events, SequenceTheorems, TLAPS

\* After TrySend the channel is still typed, within its capacity and not
\* empty: an event is only dropped when the buffer holds others.
LEMMA TrySendType ==
    ASSUME NEW S, NEW b \in Seq(S), NEW e \in S, Len(b) <= EventBuffer
    PROVE  /\ TrySend(b, e) \in Seq(S)
           /\ Len(TrySend(b, e)) <= EventBuffer
           /\ TrySend(b, e) # <<>>
<1> USE EventBufferAssumption DEF EventBufferAssumption
<1>1. CASE Len(b) < EventBuffer
  <2>1. TrySend(b, e) = Append(b, e)  BY <1>1 DEF TrySend
  <2>2. Append(b, e) \in Seq(S) /\ Len(Append(b, e)) = Len(b) + 1  OBVIOUS
  <2>3. Len(b) \in Nat  OBVIOUS
  <2>4. Append(b, e) # <<>>  BY <2>2, <2>3
  <2> QED  BY <1>1, <2>1, <2>2, <2>3, <2>4
<1>2. CASE ~(Len(b) < EventBuffer)
  <2>1. TrySend(b, e) = b  BY <1>2 DEF TrySend
  <2>2. b # <<>>  BY <1>2
  <2> QED  BY <2>1, <2>2
<1> QED  BY <1>1, <1>2

\* Every element of the channel after TrySend was there or is the new event.
LEMMA TrySendElements ==
    ASSUME NEW S, NEW b \in Seq(S), NEW e \in S, NEW i \in DOMAIN TrySend(b, e)
    PROVE  TrySend(b, e)[i] = e \/ (i \in DOMAIN b /\ TrySend(b, e)[i] = b[i])
<1>1. CASE Len(b) < EventBuffer
  <2>1. TrySend(b, e) = Append(b, e)  BY <1>1 DEF TrySend
  <2>2. i \in 1 .. Len(b) + 1  BY <2>1
  <2> QED  BY <2>1, <2>2
<1>2. CASE ~(Len(b) < EventBuffer)  BY <1>2 DEF TrySend
<1> QED  BY <1>1, <1>2

\* Taking the head off a typed channel leaves a typed, shorter one.
LEMMA DrainType ==
    ASSUME NEW S, NEW b \in Seq(S), b # <<>>
    PROVE  /\ Head(b) \in S /\ Tail(b) \in Seq(S)
           /\ Len(Tail(b)) = Len(b) - 1
           /\ Len(b) \in Nat
OBVIOUS

-----------------------------------------------------------------------------
(* Events mapped to the requests they are about *)

\* The channel as the contract sees it, without the kinds of its events.
Requests(b) == [i \in DOMAIN b |-> b[i].req]

\* Without its kind an event enters the channel, or is dropped, as with it.
LEMMA RequestsTrySend ==
    ASSUME NEW S, NEW b \in Seq(S), NEW ev \in S
    PROVE  Requests(TrySend(b, ev)) = TrySend(Requests(b), ev.req)
<1> DEFINE R == {e.req : e \in S}
           r == ev.req
<1>0. r \in R /\ \A e \in S : e.req \in R  OBVIOUS
<1> HIDE DEF R
<1>1. \A i \in DOMAIN b : b[i] \in S /\ b[i].req \in R
  <2>1. \A i \in DOMAIN b : b[i] \in S  BY LenProperties, ElementOfSeq
  <2> QED  BY <1>0, <2>1
<1>2. Requests(b) \in Seq(R) /\ Len(Requests(b)) = Len(b) /\ DOMAIN b = 1 .. Len(b)
  BY <1>1, LenProperties, SeqDef DEF Requests
<1>3. CASE Len(b) < EventBuffer
  <2>1. TrySend(b, ev) = Append(b, ev) /\ TrySend(Requests(b), r) = Append(Requests(b), r)
    BY <1>2, <1>3 DEF TrySend
  <2>2. /\ Append(b, ev) \in Seq(S) /\ Len(Append(b, ev)) = Len(b) + 1
        /\ \A i \in 1 .. Len(b) : Append(b, ev)[i] = b[i]
        /\ Append(b, ev)[Len(b) + 1] = ev
    BY AppendProperties
  <2>3. /\ Append(Requests(b), r) \in Seq(R) /\ Len(Append(Requests(b), r)) = Len(b) + 1
        /\ \A i \in 1 .. Len(b) : Append(Requests(b), r)[i] = Requests(b)[i]
        /\ Append(Requests(b), r)[Len(b) + 1] = r
    BY <1>0, <1>2, AppendProperties
  <2>4. DOMAIN Append(b, ev) = 1 .. Len(b) + 1 /\ DOMAIN Append(Requests(b), r) = 1 .. Len(b) + 1
    BY <2>2, <2>3, LenProperties
  <2>5. Requests(Append(b, ev)) \in Seq(R) /\ Len(Requests(Append(b, ev))) = Len(b) + 1
    <3>1. \A i \in 1 .. Len(b) + 1 : Append(b, ev)[i] \in S
      BY <2>2, <2>4, ElementOfSeq
    <3>2. \A i \in 1 .. Len(b) + 1 : Append(b, ev)[i].req \in R
      BY <1>0, <3>1
    <3> QED  BY <2>4, <3>2, LenProperties DEF Requests
  <2>6. ASSUME NEW i \in 1 .. Len(b) + 1
        PROVE  Requests(Append(b, ev))[i] = Append(Requests(b), r)[i]
    <3>1. Requests(Append(b, ev))[i] = Append(b, ev)[i].req  BY <2>4 DEF Requests
    <3>2. CASE i = Len(b) + 1  BY <2>2, <2>3, <3>1, <3>2
    <3>3. CASE i \in 1 .. Len(b)
      <4>1. Requests(b)[i] = b[i].req  BY <1>2, <3>3 DEF Requests
      <4> QED  BY <2>2, <2>3, <3>1, <3>3, <4>1
    <3>4. Len(b) \in Nat  BY LenProperties
    <3>5. i = Len(b) + 1 \/ i \in 1 .. Len(b)  BY <3>4
    <3> QED  BY <3>2, <3>3, <3>5
  <2>7. Requests(Append(b, ev)) = Append(Requests(b), r)
    BY <2>3, <2>5, <2>6, SeqEqual
  <2> QED  BY <2>1, <2>7
<1>4. CASE ~(Len(b) < EventBuffer)
  BY <1>2, <1>4 DEF TrySend
<1> QED  BY <1>3, <1>4

\* Taking the head off the channel takes it off the contract's.
LEMMA RequestsDrain ==
    ASSUME NEW S, NEW b \in Seq(S), b # <<>>
    PROVE  /\ Requests(b) # <<>>
           /\ Head(Requests(b)) = Head(b).req
           /\ Tail(Requests(b)) = Requests(Tail(b))
<1> DEFINE R == {e.req : e \in S}
<1>0. \A e \in S : e.req \in R  OBVIOUS
<1> HIDE DEF R
<1>1. Len(b) \in Nat /\ DOMAIN b = 1 .. Len(b) /\ Len(b) # 0
  BY LenProperties, EmptySeq
<1>2. \A i \in 1 .. Len(b) : b[i] \in S /\ b[i].req \in R
  <2>1. \A i \in 1 .. Len(b) : b[i] \in S  BY ElementOfSeq
  <2> QED  BY <1>0, <2>1
<1>3. Requests(b) \in Seq(R) /\ Len(Requests(b)) = Len(b)
  BY <1>1, <1>2, LenProperties, SeqDef DEF Requests
<1>4. Requests(b) # <<>>  BY <1>1, <1>3, EmptySeq
<1>5. Head(Requests(b)) = Head(b).req
  <2>1. Head(b) = b[1] /\ Head(Requests(b)) = Requests(b)[1]
    BY <1>3, <1>4
  <2>2. 1 \in DOMAIN b  BY <1>1
  <2> QED  BY <2>1, <2>2 DEF Requests
<1>6. /\ Tail(b) \in Seq(S) /\ Len(Tail(b)) = Len(b) - 1
      /\ \A i \in 1 .. Len(Tail(b)) : Tail(b)[i] = b[i + 1]
  BY HeadTailProperties
<1>7. /\ Tail(Requests(b)) \in Seq(R) /\ Len(Tail(Requests(b))) = Len(b) - 1
      /\ \A i \in 1 .. Len(Tail(Requests(b))) : Tail(Requests(b))[i] = Requests(b)[i + 1]
  BY <1>3, <1>4, HeadTailProperties
<1>8. DOMAIN Tail(b) = 1 .. Len(b) - 1  BY <1>6, LenProperties
<1>9. \A i \in 1 .. Len(b) - 1 : Requests(Tail(b))[i] = Tail(Requests(b))[i]
  <2> TAKE i \in 1 .. Len(b) - 1
  <2>1. i + 1 \in DOMAIN b  BY <1>1
  <2> QED  BY <2>1, <1>6, <1>7, <1>8 DEF Requests
<1>10. Requests(Tail(b)) \in Seq(R) /\ Len(Requests(Tail(b))) = Len(b) - 1
  <2>1. \A i \in 1 .. Len(b) - 1 : Tail(b)[i].req \in R
    BY <1>1, <1>2, <1>6
  <2>2. Len(b) - 1 \in Nat  BY <1>1
  <2> QED  BY <1>8, <2>1, <2>2, SeqDef, LenProperties DEF Requests
<1>11. Tail(Requests(b)) = Requests(Tail(b))
  BY <1>7, <1>9, <1>10, SeqEqual
<1> QED  BY <1>4, <1>5, <1>11

=============================================================================
