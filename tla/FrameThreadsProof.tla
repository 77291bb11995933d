------------------------- MODULE FrameThreadsProof -------------------------
(***************************************************************************)
(* Proofs about FrameThreads, for any number of frame contexts and units:  *)
(* its inductive invariant, the properties that follow from it, and that   *)
(* it implements the queue of OutputQueue.                                 *)
(***************************************************************************)
EXTENDS FrameThreads, SequenceTheorems, TLAPS

USE NFcAssumption, MaxAssumption DEF NFcAssumption, MaxAssumption

----------------------------------------------------------------------------
(* The operators *)

\* Succ stays in the ring.
LEMMA SuccType == ASSUME NEW s \in Slots PROVE Succ(s) \in Slots
BY DEF Succ, Slots

\* first stays one of the slots.
LEMMA FirstType == ASSUME first \in Slots, NEW s PROVE FirstAfter(s) \in Slots
BY SuccType DEF FirstAfter

\* Whether the frames are in order is a truth value.
LEMMA OrderType == ASSUME KeepOrder PROVE ordered' \in BOOLEAN
BY DEF KeepOrder

\* When next moves on, every slot comes one nearer but the one left behind.
LEMMA PosRotates ==
  ASSUME next \in Slots, next' = Succ(next), NEW s \in Slots
  PROVE  /\ Pos(s) \in 0 .. NFc - 1
         /\ Pos(s) = 0 <=> s = next
         /\ s = next => Pos(s)' = NFc - 1
         /\ s # next => Pos(s)' = Pos(s) - 1
BY DEF Pos, Succ, Slots

\* The units already sent keep their kinds when more are sent.
LEMMA SentGrows ==
  ASSUME sent \in Seq(Kinds), NEW n \in Nat, NEW p \in [1 .. n -> Kinds]
  PROVE  /\ sent \o p \in Seq(Kinds) /\ Len(sent \o p) = Len(sent) + n
         /\ \A u \in 1 .. Len(sent) : (sent \o p)[u] = sent[u]
<1>1. p \in Seq(Kinds) /\ Len(p) = n
  BY SeqDef, LenProperties
<1>2. sent \o p \in Seq(Kinds) /\ Len(sent \o p) = Len(sent) + n
  BY <1>1
<1>3. \A u \in 1 .. Len(sent) : (sent \o p)[u] = sent[u]
  BY <1>1, ConcatProperties
<1> QED BY <1>2, <1>3

\* A picture added to the outputs is one of the units.
LEMMA AppendType ==
  ASSUME NEW q \in Seq(UnitIds), NEW u \in UnitIds
  PROVE  Append(q, u) \in Seq(UnitIds)
BY AppendProperties

----------------------------------------------------------------------------
(* Type correctness *)

\* The unit that is parsed is one of those sent.
LEMMA CurrentType ==
  ASSUME TypeOK
  PROVE  /\ Len(sent) \in Nat /\ Current \in 1 .. Len(sent) + 1
         /\ in0 # 0 => Current \in UnitIds /\ Current <= Len(sent)
<1>1. Len(sent) \in Nat
  BY LenProperties DEF TypeOK, InputTypes
<1> QED BY <1>1 DEF TypeOK, InputTypes, Current, UnitIds

\* output_image adds a unit to what the client has got, or to the errors.
LEMMA OutputTypes ==
  ASSUME GhostTypes, UNCHANGED <<pic, status>>, ordered' \in BOOLEAN, NEW u,
         outputs' = outputs \/ (u \in UnitIds /\ outputs' = Append(outputs, u)),
         uncopied' = uncopied \/ (u \in UnitIds /\ uncopied' = uncopied \cup {u})
  PROVE  GhostTypes'
<1>1. outputs \in Seq(UnitIds) /\ uncopied \subseteq UnitIds
  BY DEF GhostTypes
<1>2. outputs' \in Seq(UnitIds)
  BY <1>1, AppendType
<1>3. uncopied' \subseteq UnitIds
  BY <1>1
<1> QED BY <1>2, <1>3 DEF GhostTypes

\* Parsing only takes from the input.
LEMMA InputShrinks ==
  ASSUME TypeOK, sent' = sent, refused' \in BOOLEAN,
         in0' = 0 \/ in0' = in0 \/ (in0 # 0 /\ in0' = in0 - 1)
  PROVE  InputTypes'
BY CurrentType DEF TypeOK, InputTypes

\* Every step keeps the types.
LEMMA TypeStep == TypeOK /\ [Next]_vars => TypeOK'
<1> SUFFICES ASSUME TypeOK, [Next]_vars PROVE TypeOK'
  OBVIOUS
<1> USE SuccType, CurrentType DEF TypeOK, Pics, None, Outcome, Return
<1> USE DEF QueueTypes, CallTypes, CountTypes, GhostTypes
<1>1. CASE Send
  BY <1>1 DEF InputTypes, Send, input, cached, ring, drainVars, ghost
<1>2. CASE Get
  BY <1>2 DEF InputTypes, Get, input, cached, ring, drainVars, ghost
<1>3. CASE Flush
  <2>1. InputTypes'
    BY <1>3, InputShrinks DEF Flush
  <2>2. error' \in [Slots -> BOOLEAN]
    BY <1>3 DEF Flush, Idle
  <2>3. outDelayed' \in [Slots -> Pics] /\ working' \in [Slots -> Pics]
    BY <1>3 DEF Flush
  <2>4. next' \in Slots /\ first' \in Slots /\ retval' \in [Slots -> BOOLEAN]
    BY <1>3 DEF Flush, Slots
  <2>5. QueueTypes' /\ CallTypes'
    BY <1>3, <2>2, <2>3, <2>4 DEF Flush, drainVars
  <2>6. CountTypes' /\ GhostTypes'
    BY <1>3 DEF Flush, drainVars
  <2> QED BY <2>1, <2>5, <2>6
<1>4. CASE SendDone
  BY <1>4 DEF InputTypes, SendDone, input, cached, ring, drainVars, ghost
<1>5. CASE GetError
  BY <1>5 DEF InputTypes, GetError, input, ring, drainVars, ghost
<1>6. CASE GetReady
  <2>1. UNCHANGED <<sent, input, cached, drain, ref, ring, call, drainCall, drainVars, flushes>>
    BY <1>6 DEF GetReady
  <2>2. out \in UnitIds /\ out' = None
    BY <1>6 DEF GetReady, Output
  <2>3. InputTypes' /\ QueueTypes' /\ CountTypes'
    BY <2>1, <2>2 DEF InputTypes, input, cached, ring, drainVars
  <2>4. pc' = "idle" /\ result' \in [kind : {"error", "picture"}, unit : Pics]
    BY <1>6, <2>2 DEF GetReady, Output
  <2>5. CallTypes'
    BY <2>1, <2>4 DEF drainVars
  <2>6. /\ outputs' = outputs \/ outputs' = Append(outputs, out)
        /\ uncopied' = uncopied \/ uncopied' = uncopied \cup {out}
        /\ UNCHANGED <<pic, status>> /\ ordered' \in BOOLEAN
    BY <1>6 DEF GetReady, Output
  <2>7. GhostTypes'
    <3>1. GhostTypes
      OBVIOUS
    <3> HIDE DEF TypeOK, QueueTypes, CallTypes, CountTypes, GhostTypes, Pics, None, Outcome, Return
    <3> QED BY <2>2, <2>6, <3>1, OutputTypes
  <2> QED BY <2>7, <2>3, <2>5
<1>7. CASE GetDrain
  <2>1. InputTypes' /\ QueueTypes' /\ CallTypes'
    BY <1>7 DEF InputTypes, GetDrain, input, cached, ring, ghost
  <2>2. CountTypes' /\ GhostTypes'
    BY <1>7 DEF GetDrain, input, cached, ring, ghost
  <2> QED BY <2>1, <2>2
<1>8. CASE GetAgain
  BY <1>8 DEF InputTypes, GetAgain, input, cached, ring, drainVars, ghost
<1>9. CASE ParseOther
  <2>1. InputTypes'
    BY <1>9, InputShrinks DEF InputTypes, ParseOther, Parsing, Consume
  <2>2. QueueTypes'
    BY <1>9 DEF UnitIds, ParseOther, Parsing, Consume, cached, ring, drainVars, ghost
  <2>3. CallTypes' /\ CountTypes' /\ GhostTypes'
    BY <1>9 DEF ParseOther, Parsing, Consume, cached, ring, drainVars, ghost
  <2> QED BY <2>1, <2>2, <2>3
<1>10. CASE ParseMalformed
  <2>1. InputTypes'
    BY <1>10, InputShrinks DEF InputTypes, ParseMalformed, Parsing, Fail
  <2>2. QueueTypes'
    BY <1>10 DEF UnitIds, ParseMalformed, Parsing, Fail, ring, drainVars, ghost
  <2>3. CallTypes' /\ CountTypes' /\ GhostTypes'
    BY <1>10 DEF ParseMalformed, Parsing, Fail, ring, drainVars, ghost
  <2> QED BY <2>1, <2>2, <2>3
<1>11. CASE SubmitFrame
  <2>1. InputTypes'
    BY <1>11, InputShrinks DEF InputTypes, SubmitFrame, Parsing, Consume
  <2>2. QueueTypes'
    BY <1>11, FirstType DEF UnitIds, SubmitFrame, Parsing, PopSlot, Consume, drainVars
  <2>3. CallTypes' /\ CountTypes'
    BY <1>11 DEF SubmitFrame, Parsing, PopSlot, Consume, drainVars
  <2>4. GhostTypes'
    BY <1>11, OrderType DEF SubmitFrame, Parsing
  <2> QED BY <2>1, <2>2, <2>3, <2>4
<1>12. CASE SubmitRejected
  <2>1. InputTypes'
    BY <1>12, InputShrinks DEF InputTypes, SubmitRejected, Parsing, Fail
  <2>2. QueueTypes'
    BY <1>12, FirstType DEF UnitIds, SubmitRejected, Parsing, PopSlot, Fail, drainVars
  <2>3. CallTypes' /\ CountTypes'
    BY <1>12 DEF SubmitRejected, Parsing, PopSlot, Fail, drainVars
  <2>4. GhostTypes'
    BY <1>12, OrderType DEF SubmitRejected
  <2> QED BY <2>1, <2>2, <2>3, <2>4
<1>13. CASE ShowExisting
  <2>1. InputTypes'
    BY <1>13, InputShrinks DEF InputTypes, ShowExisting, Parsing, Consume
  <2>2. QueueTypes'
    BY <1>13, FirstType DEF UnitIds, ShowExisting, Parsing, PopSlot, Consume, drainVars
  <2>3. CallTypes' /\ CountTypes'
    BY <1>13 DEF ShowExisting, Parsing, PopSlot, Consume, drainVars
  <2>4. GhostTypes'
    BY <1>13, OrderType DEF ShowExisting, Parsing
  <2> QED BY <2>1, <2>2, <2>3, <2>4
<1>14. CASE DrainStop
  BY <1>14 DEF InputTypes, DrainStop, input, cached, ring, ghost
<1>15. CASE DrainSlot
  <2>1. InputTypes'
    BY <1>15 DEF InputTypes, DrainSlot, input
  <2>2. QueueTypes'
    BY <1>15, FirstType DEF DrainSlot, Output
  <2>3. CallTypes' /\ CountTypes'
    BY <1>15 DEF DrainSlot, Output, Held, Shows, Visible
  <2>4. /\ outDelayed[next] # None => outDelayed[next] \in UnitIds
        /\ UNCHANGED <<pic, status>> /\ ordered' \in BOOLEAN
    BY <1>15, OrderType DEF DrainSlot
  <2>5. /\ outputs' = outputs \/ (outDelayed[next] # None /\ outputs' = Append(outputs, outDelayed[next]))
        /\ uncopied' = uncopied \/ (outDelayed[next] # None /\ uncopied' = uncopied \cup {outDelayed[next]})
    BY <1>15 DEF DrainSlot, Output, Shows, Visible
  <2>6. GhostTypes'
    <3>1. GhostTypes
      OBVIOUS
    <3> HIDE DEF TypeOK, QueueTypes, CallTypes, CountTypes, GhostTypes, Pics, None, Outcome, Return
    <3> QED BY <2>4, <2>5, <3>1, OutputTypes
  <2> QED BY <2>1, <2>2, <2>3, <2>6
<1>16. CASE DrainAgain
  BY <1>16 DEF InputTypes, DrainAgain, input, cached, ring, drainVars, ghost
<1>17. CASE DecodeSingle
  <2>1. InputTypes'
    BY <1>17, InputShrinks DEF InputTypes, DecodeSingle, Parsing, Consume
  <2>2. QueueTypes'
    BY <1>17 DEF UnitIds, DecodeSingle, Parsing, Consume, cached, drainVars
  <2>3. CallTypes' /\ CountTypes' /\ GhostTypes'
    BY <1>17 DEF DecodeSingle, Parsing, Consume, cached, drainVars
  <2> QED BY <2>1, <2>2, <2>3
<1>18. CASE DecodeSingleFails
  <2>1. InputTypes'
    BY <1>18, InputShrinks DEF InputTypes, DecodeSingleFails, Parsing
  <2>2. QueueTypes'
    BY <1>18 DEF UnitIds, DecodeSingleFails, Parsing, cached, drainVars
  <2>3. CallTypes' /\ CountTypes' /\ GhostTypes'
    BY <1>18 DEF DecodeSingleFails, Parsing, cached, drainVars
  <2> QED BY <2>1, <2>2, <2>3
<1>19. CASE RejectSingle
  <2>1. InputTypes'
    BY <1>19, InputShrinks DEF InputTypes, RejectSingle, Parsing, Fail
  <2>2. QueueTypes'
    BY <1>19 DEF UnitIds, RejectSingle, Parsing, Fail, drainVars, ghost
  <2>3. CallTypes' /\ CountTypes' /\ GhostTypes'
    BY <1>19 DEF RejectSingle, Parsing, Fail, drainVars, ghost
  <2> QED BY <2>1, <2>2, <2>3
<1>20. CASE ShowExistingSingle
  <2>1. InputTypes'
    BY <1>20, InputShrinks DEF InputTypes, ShowExistingSingle, Parsing, Consume
  <2>2. QueueTypes'
    BY <1>20 DEF UnitIds, ShowExistingSingle, Parsing, Consume, cached, ring, drainVars
  <2>3. CallTypes' /\ CountTypes' /\ GhostTypes'
    BY <1>20 DEF ShowExistingSingle, Parsing, Consume, cached, ring, drainVars
  <2> QED BY <2>1, <2>2, <2>3
<1>21. CASE UNCHANGED vars
  BY <1>21 DEF InputTypes, vars, input, cached, ring, drainVars, ghost
<1>22. CASE \E s \in Slots : Decoded(s)
  BY <1>22 DEF InputTypes, Decoded, Idle, input, cached, drainVars
<1>23. CASE SendPacket
  <2> PICK n \in 1 .. MaxPacket : /\ Len(sent) + n <= MaxUnits
                                  /\ \E p \in [1 .. n -> Kinds] : sent' = sent \o p
                                  /\ in0' = n
    BY <1>23 DEF SendPacket
  <2> PICK p \in [1 .. n -> Kinds] : sent' = sent \o p
    OBVIOUS
  <2>1. sent' \in Seq(Kinds) /\ Len(sent') = Len(sent) + n
    BY SentGrows, n \in Nat DEF InputTypes
  <2>2. refused' \in BOOLEAN
    BY <1>23 DEF SendPacket, InputTypes
  <2>3. n \in Nat /\ in0' = n /\ Len(sent) + n <= MaxUnits
    OBVIOUS
  <2>4. InputTypes'
    BY <2>1, <2>2, <2>3 DEF InputTypes
  <2>5. QueueTypes' /\ CallTypes' /\ CountTypes' /\ GhostTypes'
    BY <1>23 DEF SendPacket, cached, ring, drainVars, ghost
  <2> QED BY <2>4, <2>5
<1> QED
  BY <1>1, <1>2, <1>3, <1>4, <1>5, <1>6, <1>7, <1>8, <1>9, <1>10, <1>11, <1>12, <1>13,
     <1>14, <1>15, <1>16, <1>17, <1>18, <1>19, <1>20, <1>21, <1>22, <1>23
     DEF Next, Call, Step

----------------------------------------------------------------------------
(* What the invariant says of the units that wait or have left *)

\* Every unit with a picture is older than the one that is parsed.
LEMMA OlderThanCurrent ==
  ASSUME IInv
  PROVE  /\ \A u \in UnitIds : pic[u] # None => u < Current /\ pic[u] \in UnitIds
         /\ \A s \in Slots : outDelayed[s] # None =>
              outDelayed[s] \in UnitIds /\ outDelayed[s] < Current
         /\ \A s \in Slots : ~Idle(s) => working[s] \in UnitIds /\ working[s] < Current
         /\ \A i \in 1 .. Len(outputs) : outputs[i] \in UnitIds /\ outputs[i] < Current
         /\ out # None => out \in UnitIds /\ out < Current
<1> USE CurrentType DEF IInv, TypeOK, UnitIds, Pics, None
<1>1. \A u \in UnitIds : pic[u] # None => u < Current /\ pic[u] \in UnitIds
  BY DEF PicsInv, GhostTypes
<1>2. \A s \in Slots : outDelayed[s] # None =>
        outDelayed[s] \in UnitIds /\ outDelayed[s] < Current
  BY <1>1 DEF RingInv, QueueTypes
<1>3. \A s \in Slots : ~Idle(s) => working[s] \in UnitIds /\ working[s] < Current
  BY <1>1 DEF WorkInv, QueueTypes, Idle
<1>4. \A i \in 1 .. Len(outputs) : outputs[i] \in UnitIds /\ outputs[i] < Current
  BY <1>1, ElementOfSeq DEF OutputsInv, GhostTypes
<1>5. out # None => out \in UnitIds /\ out < Current
  BY <1>1 DEF OutInv, QueueTypes
<1> QED BY <1>1, <1>2, <1>3, <1>4, <1>5

\* The picture in the next slot is the oldest of the ring, and its frame is
\* finished when the slot is: a frame it shows again was in an older slot.
LEMMA NextIsOldest ==
  ASSUME IInv, Idle(next), outDelayed[next] # None
  PROVE  /\ \A t \in Slots \ {next} : outDelayed[t] # None => outDelayed[next] < outDelayed[t]
         /\ status[pic[outDelayed[next]]] \in {"ok", "failed"}
<1> USE CurrentType, OlderThanCurrent DEF IInv, TypeOK, QueueTypes
<1>1. \A t \in Slots \ {next} : Pos(next) < Pos(t)
  BY DEF Pos, Slots
<1>2. \A t \in Slots \ {next} : outDelayed[t] # None => outDelayed[next] < outDelayed[t]
  BY <1>1 DEF RingInv
<1> DEFINE u == outDelayed[next]  p == pic[u]
<1>3. u \in UnitIds /\ p \in UnitIds /\ p <= u /\ status[p] \notin {"none", "flushed"}
  BY DEF PicsInv, RingInv
<1>4. ASSUME status[p] = "decoding" PROVE FALSE
  <2> PICK t \in Slots : working[t] = p
    BY <1>3, <1>4 DEF WorkInv
  <2>1. t # next /\ outDelayed[t] = p /\ p # None
    BY <1>3 DEF WorkInv, Idle, None, UnitIds
  <2> QED BY <1>2, <1>3, <2>1 DEF UnitIds
<1>5. status[p] \in {"none", "decoding", "ok", "failed", "flushed"}
  BY <1>3 DEF GhostTypes
<1> QED BY <1>2, <1>3, <1>4, <1>5

----------------------------------------------------------------------------
(* Steps that leave the ring alone *)

\* The initial state satisfies the invariant.
LEMMA InitInv == Init => IInv
<1> SUFFICES ASSUME Init PROVE IInv
  OBVIOUS
<1> USE DEF Init, None, Outcome
<1>1. TypeOK
  BY DEF TypeOK, InputTypes, QueueTypes, CallTypes, CountTypes, GhostTypes, Pics, Slots
<1>2. PicsInv /\ RefInv
  BY DEF PicsInv, RefInv
<1>3. WorkInv
  BY DEF WorkInv, Idle
<1>4. RingInv
  BY DEF RingInv, Slots
<1>5. RetvalInv /\ OutInv
  BY DEF RetvalInv, OutInv
<1>6. OutputsInv /\ OutputInOrder
  BY DEF OutputsInv, OutputInOrder
<1>7. NothingLost
  BY DEF NothingLost, UnitIds
<1> QED BY <1>1, <1>2, <1>3, <1>4, <1>5, <1>6, <1>7 DEF IInv

\* Calls, returns, and units that make no picture.
LEMMA QuietStep ==
  ASSUME IInv, TypeOK', in0' <= in0,
         UNCHANGED <<sent, out, ref, next, outDelayed, working, retval, ghost>>,
         pc' = "drain" => out = None /\ NFc > 1
  PROVE  IInv'
<1> USE DEF IInv, ghost
<1>0. in0 \in Int /\ in0' \in Int /\ Len(sent) \in Int /\ Len(sent') = Len(sent)
  BY CurrentType DEF TypeOK, InputTypes
<1>1. PicsInv'
  BY <1>0 DEF PicsInv, Current, UnitIds
<1>2. WorkInv' /\ RetvalInv' /\ RefInv'
  BY DEF WorkInv, RetvalInv, RefInv, Idle
<1>3. RingInv'
  BY DEF RingInv, Pos
<1>4. OutInv'
  BY DEF OutInv, Visible
<1>5. OutputsInv' /\ OutputInOrder'
  BY DEF OutputsInv, OutputInOrder
<1>6. NothingLost'
  BY DEF NothingLost, Visible
<1> QED BY <1>1, <1>2, <1>3, <1>4, <1>5, <1>6

\* New units are not parsed yet.
LEMMA SendStep == ASSUME IInv, TypeOK', SendPacket PROVE IInv'
<1> USE DEF IInv, ring, ghost, SendPacket
<1>0. PICK n \in 1 .. MaxPacket :
        /\ \E p \in [1 .. n -> Kinds] : sent' = sent \o p
        /\ in0' = n
  OBVIOUS
<1> PICK p \in [1 .. n -> Kinds] : sent' = sent \o p
  BY <1>0
<1>1. n \in Nat /\ Len(sent) \in Nat /\ in0 = 0 /\ in0' = n
  BY <1>0, CurrentType
<1>2. /\ Len(sent') = Len(sent) + n
      /\ \A u \in 1 .. Len(sent) : sent'[u] = sent[u]
  BY <1>1, SentGrows DEF TypeOK, InputTypes
<1>3. Current' = Current /\ Current = Len(sent) + 1
  BY <1>1, <1>2 DEF Current
<1>4. UNCHANGED <<out, ref, next, outDelayed, working, error, retval, pic, status, outputs,
                   uncopied>>
  BY SMT
<1>5. \A u \in UnitIds : pic[u] # None => (Visible(u)' <=> Visible(u))
  <2> TAKE u \in UnitIds
  <2> HAVE pic[u] # None
  <2>1. u \in 1 .. Len(sent)
    BY OlderThanCurrent, <1>1, <1>3 DEF UnitIds
  <2> QED BY <2>1, <1>2 DEF Visible
<1> HIDE DEF SendPacket
<1>6. PicsInv'
  BY <1>3, <1>4 DEF PicsInv
<1>7. WorkInv' /\ RetvalInv' /\ RefInv'
  BY <1>4 DEF WorkInv, RetvalInv, RefInv, Idle
<1>8. RingInv'
  BY <1>4 DEF RingInv, Pos
<1>9. OutInv'
  <2>1. pc' # "drain"
    BY DEF SendPacket
  <2>2. out # None => out \in UnitIds
    BY OlderThanCurrent
  <2> QED BY <2>1, <2>2, <1>4, <1>5 DEF OutInv
<1>10. OutputsInv' /\ OutputInOrder'
  BY <1>4 DEF OutputsInv, OutputInOrder
<1>11. NothingLost'
  <2> SUFFICES ASSUME NEW u \in UnitIds, u <= Len(sent'), Visible(u)', pic[u] # None,
                      status[pic[u]] \in {"decoding", "ok"}
               PROVE  \/ u = out
                      \/ \E s \in Slots : outDelayed[s] = u
                      \/ \E i \in 1 .. Len(outputs) : outputs[i] = u
                      \/ u \in uncopied
    BY <1>4 DEF NothingLost
  <2>1. u <= Len(sent) /\ Visible(u)
    BY OlderThanCurrent, <1>1, <1>3, <1>5 DEF UnitIds
  <2> QED BY <2>1 DEF NothingLost
<1> QED BY <1>6, <1>7, <1>8, <1>9, <1>10, <1>11

\* A worker finishes a frame.
LEMMA DecodedStep == ASSUME IInv, TypeOK', NEW w \in Slots, Decoded(w) PROVE IInv'
<1> USE DEF IInv, Decoded, input
<1> DEFINE v == working[w]
<1>1. v \in UnitIds /\ v # None /\ pic[v] = v /\ status[v] = "decoding" /\ outDelayed[w] = v
  BY OlderThanCurrent DEF WorkInv, Idle
<1>2. /\ status' \in [UnitIds -> {"none", "decoding", "ok", "failed", "flushed"}]
      /\ status'[v] \in {"ok", "failed"}
      /\ \A u \in UnitIds \ {v} : status'[u] = status[u]
      /\ retval'[w] => status'[v] = "failed"
      /\ \A s \in Slots \ {w} : retval'[s] = retval[s] /\ working'[s] = working[s]
      /\ working'[w] = None
  BY <1>1 DEF TypeOK, GhostTypes, QueueTypes
<1>3. UNCHANGED <<sent, in0, out, ref, next, outDelayed, pc, pic, outputs, uncopied>>
  OBVIOUS
<1> HIDE DEF Decoded
<1>4. PicsInv'
  <2>1. Current' = Current
    BY <1>3 DEF Current
  <2>2. v < Current
    BY <1>1, OlderThanCurrent DEF Idle
  <2> QED BY <1>1, <1>2, <1>3, <2>1, <2>2, OlderThanCurrent, CurrentType DEF PicsInv, UnitIds
<1>5. WorkInv'
  <2>1. \A s \in Slots \ {w} : working[s] # None => working[s] # v
    <3> SUFFICES ASSUME NEW s \in Slots \ {w}, working[s] = v PROVE FALSE
      BY <1>1
    <3>1. outDelayed[s] = v /\ outDelayed[w] = v /\ v # None
      BY <1>1 DEF WorkInv, Idle
    <3>2. Pos(s) < Pos(w) \/ Pos(w) < Pos(s)
      BY DEF Pos, Slots, TypeOK, QueueTypes
    <3> QED BY <1>1, <3>1, <3>2 DEF RingInv, UnitIds
  <2> QED BY <1>1, <1>2, <1>3, <2>1, OlderThanCurrent DEF WorkInv, Idle
<1>6. RingInv'
  BY <1>1, <1>2, <1>3, OlderThanCurrent DEF RingInv, Pos
<1>7. RetvalInv'
  <2>1. NFc > 1
    BY <1>1 DEF RingInv, Slots
  <2>2. retval'[w] => working'[w] = None /\ outDelayed'[w] # None /\ status'[pic'[outDelayed'[w]]] = "failed"
    BY <1>1, <1>2, <1>3
  <2>3. ASSUME NEW s \in Slots \ {w}, retval[s]
        PROVE  Idle(s) /\ outDelayed[s] # None /\ status'[pic[outDelayed[s]]] = "failed"
    <3>1. Idle(s) /\ outDelayed[s] # None /\ status[pic[outDelayed[s]]] = "failed"
      BY <2>1, <2>3 DEF RetvalInv
    <3>2. outDelayed[s] \in UnitIds /\ pic[outDelayed[s]] # None
      BY <3>1, OlderThanCurrent DEF RingInv
    <3>3. pic[outDelayed[s]] \in UnitIds \ {v}
      BY <1>1, <3>1, <3>2, OlderThanCurrent
    <3> QED BY <1>2, <3>1, <3>3
  <2> QED BY <1>2, <1>3, <2>2, <2>3 DEF RetvalInv, Idle
<1>8. OutInv'
  <2>1. out # None => pic[out] \in UnitIds /\ pic[out] # v
    BY <1>1, OlderThanCurrent DEF OutInv
  <2> QED BY <1>2, <1>3, <2>1 DEF OutInv, Visible
<1>9. RefInv'
  BY <1>1, <1>2, <1>3 DEF RefInv, TypeOK, QueueTypes, Pics
<1>10. OutputsInv' /\ OutputInOrder'
  BY <1>3 DEF OutputsInv, OutputInOrder
<1>11. NothingLost'
  BY <1>1, <1>2, <1>3, OlderThanCurrent DEF NothingLost, Visible
<1> QED BY <1>4, <1>5, <1>6, <1>7, <1>8, <1>9, <1>10, <1>11

----------------------------------------------------------------------------
(* Steps that move the ring on *)

\* The slot that next leaves gets the newest unit, or none.
LEMMA RingRotates ==
  ASSUME IInv, TypeOK', next' = Succ(next), NEW x \in Pics,
         outDelayed' = [outDelayed EXCEPT ![next] = x], x # None => x = Current
  PROVE  \A s, t \in Slots :
           outDelayed'[s] # None /\ outDelayed'[t] # None /\ Pos(s)' < Pos(t)' =>
             outDelayed'[s] < outDelayed'[t]
<1> SUFFICES ASSUME NEW s \in Slots, NEW t \in Slots,
                    outDelayed'[s] # None, outDelayed'[t] # None, Pos(s)' < Pos(t)'
             PROVE  outDelayed'[s] < outDelayed'[t]
  OBVIOUS
<1> USE DEF IInv, TypeOK, QueueTypes
<1>1. s # next
  BY PosRotates
<1>2. outDelayed'[s] = outDelayed[s] /\ outDelayed[s] < Current
  BY <1>1, OlderThanCurrent
<1>3. CASE t = next
  BY <1>2, <1>3
<1>4. CASE t # next
  <2>1. outDelayed'[t] = outDelayed[t]
    BY <1>4
  <2>2. Pos(s) < Pos(t)
    BY <1>1, <1>4, PosRotates
  <2> QED BY <1>2, <2>1, <2>2 DEF RingInv
<1> QED BY <1>3, <1>4

\* rav1d_submit_frame and parse_obus move the oldest picture of the ring to
\* the output, which is free, and queue the unit x, which may be none.
LEMMA PopStep ==
  ASSUME IInv, TypeOK', NFc > 1, ~Ready, in0 # 0, pc' # "drain",
         Idle(next), PopSlot(next),
         NEW x \in {None, Current}, outDelayed' = [outDelayed EXCEPT ![next] = x],
         x # None => pic'[x] # None /\ pic'[x] \in UnitIds /\ status'[pic'[x]] # "flushed",
         x = None => pic'[Current] = None,
         UNCHANGED <<sent, outputs, uncopied>>,
         \A u \in UnitIds \ {Current} : pic'[u] = pic[u] /\ status'[u] = status[u],
         \A s \in Slots \ {next} : working'[s] = working[s]
  PROVE  RingInv' /\ RetvalInv' /\ OutInv' /\ OutputsInv' /\ OutputInOrder' /\ NothingLost'
<1> USE DEF IInv, TypeOK, QueueTypes
<1> DEFINE o == outDelayed[next]
<1>1. out = None /\ Current \in UnitIds /\ x \in Pics
  BY CurrentType DEF Ready, Pics
<1>2. /\ next' = Succ(next)
      /\ \A s \in Slots : retval'[s] = (s # next /\ retval[s])
      /\ out' = IF ~retval[next] /\ Shows(o) THEN o ELSE None
  BY <1>1 DEF PopSlot
<1>3. \A u \in UnitIds : u < Current => pic'[u] = pic[u] /\ status'[u] = status[u]
  BY <1>1 DEF UnitIds
<1>4. \A u \in UnitIds : pic[u] # None => pic'[u] = pic[u] /\ status'[pic[u]] = status[pic[u]]
  <2> SUFFICES ASSUME NEW u \in UnitIds, pic[u] # None
               PROVE  pic'[u] = pic[u] /\ status'[pic[u]] = status[pic[u]]
    OBVIOUS
  <2>1. u < Current /\ pic[u] \in UnitIds /\ pic[pic[u]] # None
    BY OlderThanCurrent DEF PicsInv
  <2>2. pic[u] < Current
    BY <2>1, OlderThanCurrent
  <2> QED BY <1>3, <2>1, <2>2
<1>5. \A s \in Slots \ {next} : outDelayed'[s] = outDelayed[s]
  OBVIOUS
<1>6. outDelayed'[next] = x
  OBVIOUS
<1>7. RingInv'
  <2>1. \A s \in Slots : outDelayed'[s] # None =>
          pic'[outDelayed'[s]] # None /\ status'[pic'[outDelayed'[s]]] # "flushed"
    BY <1>4, <1>5, <1>6, OlderThanCurrent DEF RingInv
  <2>2. \A s, t \in Slots :
          outDelayed'[s] # None /\ outDelayed'[t] # None /\ Pos(s)' < Pos(t)' =>
            outDelayed'[s] < outDelayed'[t]
    BY <1>1, <1>2, RingRotates
  <2> QED BY <2>1, <2>2 DEF RingInv
<1>8. RetvalInv'
  <2> SUFFICES ASSUME NEW s \in Slots, retval'[s]
               PROVE  Idle(s)' /\ outDelayed'[s] # None /\ status'[pic'[outDelayed'[s]]] = "failed"
    BY DEF RetvalInv
  <2>1. s # next /\ retval[s]
    BY <1>2
  <2>2. Idle(s) /\ outDelayed[s] # None /\ status[pic[outDelayed[s]]] = "failed"
    BY <2>1 DEF RetvalInv
  <2>3. outDelayed[s] \in UnitIds /\ pic[outDelayed[s]] # None
    BY <2>2, OlderThanCurrent DEF RingInv
  <2> QED BY <1>4, <1>5, <2>1, <2>2, <2>3 DEF Idle
<1>9. out' # None =>
        /\ out' = o /\ o \in UnitIds /\ Visible(o) /\ pic[o] # None /\ status[pic[o]] = "ok"
        /\ \A s \in Slots : outDelayed'[s] # None => o < outDelayed'[s]
  <2> SUFFICES ASSUME out' # None
               PROVE  /\ out' = o /\ o \in UnitIds /\ Visible(o)
                      /\ pic[o] # None /\ status[pic[o]] = "ok"
                      /\ \A s \in Slots : outDelayed'[s] # None => o < outDelayed'[s]
    OBVIOUS
  <2>1. out' = o /\ o # None /\ Visible(o) /\ status[pic[o]] # "failed"
    BY <1>2 DEF Shows, Visible
  <2>2. o \in UnitIds /\ pic[o] # None /\ o < Current
    BY <2>1, OlderThanCurrent DEF RingInv
  <2>3. status[pic[o]] = "ok"
    BY <2>1, NextIsOldest
  <2>4. \A s \in Slots : outDelayed'[s] # None => o < outDelayed'[s]
    BY <1>5, <1>6, <2>1, <2>2, NextIsOldest
  <2> QED BY <2>1, <2>2, <2>3, <2>4
<1>10. OutInv'
  BY <1>4, <1>9 DEF OutInv, Visible
<1>11. OutputsInv'
  <2> SUFFICES ASSUME NEW i \in 1 .. Len(outputs)
               PROVE  /\ pic'[outputs[i]] # None
                      /\ out' # None => outputs[i] < out'
                      /\ \A s \in Slots : outDelayed'[s] # None => outputs[i] < outDelayed'[s]
    BY DEF OutputsInv
  <2>1. /\ outputs[i] \in UnitIds /\ pic[outputs[i]] # None /\ outputs[i] < Current
        /\ \A s \in Slots : outDelayed[s] # None => outputs[i] < outDelayed[s]
    BY OlderThanCurrent DEF OutputsInv
  <2>2. out' # None => outputs[i] < out'
    BY <1>9, <2>1 DEF UnitIds, None
  <2> QED BY <1>4, <1>5, <1>6, <2>1, <2>2
<1>12. OutputInOrder'
  BY DEF OutputInOrder
<1>13. NothingLost'
  <2> SUFFICES ASSUME NEW u \in UnitIds, u <= Len(sent), Visible(u), pic'[u] # None,
                      status'[pic'[u]] \in {"decoding", "ok"}
               PROVE  \/ u = out'
                      \/ \E s \in Slots : outDelayed'[s] = u
                      \/ \E i \in 1 .. Len(outputs) : outputs[i] = u
                      \/ u \in uncopied
    BY DEF NothingLost, Visible
  <2>1. CASE u = Current
    BY <1>1, <1>6, <2>1
  <2>2. CASE u # Current
    <3>1. pic[u] # None /\ status[pic[u]] \in {"decoding", "ok"}
      BY <1>4, <2>2
    <3>2. \/ \E s \in Slots : outDelayed[s] = u
          \/ \E i \in 1 .. Len(outputs) : outputs[i] = u
          \/ u \in uncopied
      BY <1>1, <3>1 DEF NothingLost, UnitIds, None
    <3>3. CASE o = u
      <4>1. ~retval[next] /\ Shows(o)
        BY <3>1, <3>3 DEF RetvalInv, Shows, Visible, UnitIds, None
      <4> QED BY <1>2, <3>3, <4>1
    <3> QED BY <1>5, <3>2, <3>3
  <2> QED BY <2>1, <2>2
<1> QED BY <1>7, <1>8, <1>10, <1>11, <1>12, <1>13

\* A frame is queued and started.
LEMMA SubmitStep == ASSUME IInv, TypeOK', SubmitFrame PROVE IInv'
<1> USE DEF IInv
<1> DEFINE c == Current
<1>1. /\ NFc > 1 /\ ~Ready /\ in0 # 0 /\ Idle(next) /\ PopSlot(next) /\ pc = "gen"
      /\ outDelayed' = [outDelayed EXCEPT ![next] = c]
      /\ working' = [working EXCEPT ![next] = c]
      /\ ref' \in {ref, c}
      /\ pic' = [pic EXCEPT ![c] = c]
      /\ status' = [status EXCEPT ![c] = "decoding"]
      /\ in0' = in0 - 1
      /\ UNCHANGED <<pc, sent, outputs, uncopied>>
  BY DEF SubmitFrame, Parsing, Consume
<1>2. c \in UnitIds /\ c # None /\ c < Len(sent) + 1
  BY <1>1, CurrentType DEF UnitIds, None
<1>3. /\ pic'[c] = c /\ status'[c] = "decoding"
      /\ \A u \in UnitIds \ {c} : pic'[u] = pic[u] /\ status'[u] = status[u]
      /\ outDelayed'[next] = c /\ working'[next] = c
      /\ \A s \in Slots \ {next} : outDelayed'[s] = outDelayed[s] /\ working'[s] = working[s]
  BY <1>1, <1>2 DEF TypeOK, GhostTypes, QueueTypes
<1>4. RingInv' /\ RetvalInv' /\ OutInv' /\ OutputsInv' /\ OutputInOrder' /\ NothingLost'
  BY <1>1, <1>2, <1>3, PopStep
<1>5. \A u \in UnitIds : pic[u] # None => u # c /\ pic[u] # c
  <2> SUFFICES ASSUME NEW u \in UnitIds, pic[u] # None PROVE u # c /\ pic[u] # c
    OBVIOUS
  <2>1. pic[u] \in UnitIds /\ pic[pic[u]] # None /\ u < c
    BY OlderThanCurrent DEF PicsInv
  <2>2. pic[u] < c
    BY <2>1, OlderThanCurrent
  <2> QED BY <1>2, <2>1, <2>2 DEF UnitIds
<1>6. PicsInv'
  <2>1. Current' = c + 1
    BY <1>1, CurrentType DEF Current, TypeOK, InputTypes
  <2>2. \A u \in UnitIds : u >= Current' => u # c /\ u >= c
    BY <1>2, <2>1 DEF UnitIds
  <2>3. \A u \in UnitIds : u >= Current' => pic'[u] = None /\ status'[u] = "none"
    BY <1>3, <2>2 DEF PicsInv
  <2>4. ASSUME NEW u \in UnitIds, pic'[u] # None
        PROVE  pic'[u] <= u /\ pic'[pic'[u]] = pic'[u] /\ status'[pic'[u]] # "none"
    <3>1. CASE u = c
      BY <1>2, <1>3, <3>1 DEF UnitIds
    <3>2. CASE u # c
      <4>1. pic'[u] = pic[u] /\ pic[u] \in UnitIds /\ pic[u] # c
        BY <1>3, <1>5, <2>4, <3>2, OlderThanCurrent
      <4> QED BY <1>3, <2>4, <4>1 DEF PicsInv
    <3> QED BY <3>1, <3>2
  <2> QED BY <2>3, <2>4 DEF PicsInv
<1>7. WorkInv'
  <2>1. ASSUME NEW s \in Slots, ~Idle(s)'
        PROVE  /\ outDelayed'[s] = working'[s]
               /\ pic'[working'[s]] = working'[s] /\ status'[working'[s]] = "decoding"
    <3>1. CASE s = next
      BY <1>3, <3>1
    <3>2. CASE s # next
      <4>1. /\ ~Idle(s) /\ working'[s] = working[s] /\ outDelayed'[s] = outDelayed[s]
            /\ working[s] \in UnitIds
        BY <1>3, <2>1, <3>2, OlderThanCurrent DEF Idle
      <4>2. working[s] # c
        BY <4>1, <1>5, <1>2 DEF WorkInv, UnitIds, None
      <4> QED BY <1>3, <4>1, <4>2 DEF WorkInv
    <3> QED BY <3>1, <3>2
  <2>2. ASSUME NEW u \in UnitIds, status'[u] = "decoding"
        PROVE  \E s \in Slots : working'[s] = u
    <3>1. CASE u = c
      BY <1>3, <3>1 DEF TypeOK, QueueTypes
    <3>2. CASE u # c
      <4> PICK s \in Slots : working[s] = u
        BY <1>3, <2>2, <3>2 DEF WorkInv
      <4>1. s # next
        BY <1>1 DEF Idle, None, UnitIds
      <4> QED BY <1>3, <4>1
    <3> QED BY <3>1, <3>2
  <2> QED BY <2>1, <2>2 DEF WorkInv
<1>8. RefInv'
  <2>1. CASE ref' = c
    BY <1>1, <1>3, <2>1 DEF RefInv
  <2>2. CASE ref' = ref /\ ref # None
    <3>1. ref \in UnitIds /\ pic[ref] = ref
      BY <2>2 DEF RefInv, TypeOK, QueueTypes, Pics
    <3> QED BY <1>3, <1>5, <2>2, <3>1 DEF RefInv
  <2> QED BY <1>1, <2>1, <2>2 DEF RefInv
<1> QED BY <1>4, <1>6, <1>7, <1>8

\* A frame is rejected: its slot stays empty.
LEMMA RejectedStep == ASSUME IInv, TypeOK', SubmitRejected PROVE IInv'
<1> USE DEF IInv
<1>1. /\ NFc > 1 /\ ~Ready /\ in0 # 0 /\ Idle(next) /\ PopSlot(next) /\ pc' # "drain"
      /\ outDelayed' = [outDelayed EXCEPT ![next] = None]
      /\ in0' \in {in0, 0}
      /\ UNCHANGED <<sent, ref, working, pic, status, outputs, uncopied>>
  BY DEF SubmitRejected, Parsing, Fail, Return, ghost
<1>2. in0 \in Int /\ in0' <= in0 /\ Len(sent) \in Int /\ Current \in UnitIds
  BY <1>1, CurrentType DEF TypeOK, InputTypes
<1>3. pic[Current] = None
  BY <1>2, OlderThanCurrent DEF UnitIds
<1>4. RingInv' /\ RetvalInv' /\ OutInv' /\ OutputsInv' /\ OutputInOrder' /\ NothingLost'
  BY <1>1, <1>3, PopStep
<1>5. PicsInv'
  BY <1>1, <1>2 DEF PicsInv, Current, UnitIds
<1>6. WorkInv' /\ RefInv'
  <2>1. \A s \in Slots : ~Idle(s) => s # next /\ outDelayed'[s] = outDelayed[s]
    BY <1>1 DEF TypeOK, QueueTypes
  <2> QED BY <1>1, <2>1 DEF WorkInv, RefInv, Idle
<1> QED BY <1>4, <1>5, <1>6

\* A reference is queued to be shown again.
LEMMA ShowExistingStep == ASSUME IInv, TypeOK', ShowExisting PROVE IInv'
<1> USE DEF IInv
<1> DEFINE c == Current
<1>1. /\ NFc > 1 /\ ~Ready /\ in0 # 0 /\ Idle(next) /\ PopSlot(next) /\ pc = "gen"
      /\ ref # None
      /\ outDelayed' = [outDelayed EXCEPT ![next] = c]
      /\ pic' = [pic EXCEPT ![c] = ref]
      /\ in0' = in0 - 1
      /\ UNCHANGED <<pc, sent, ref, working, status, outputs, uncopied>>
  BY DEF ShowExisting, Parsing, Consume
<1>2. c \in UnitIds /\ c # None /\ c < Len(sent) + 1
  BY <1>1, CurrentType DEF UnitIds, None
<1>3. ref \in UnitIds /\ pic[ref] = ref /\ status[ref] \notin {"flushed", "none"} /\ ref < c
  BY <1>1, OlderThanCurrent DEF RefInv, PicsInv, TypeOK, QueueTypes, Pics
<1>4. /\ pic'[c] = ref
      /\ \A u \in UnitIds \ {c} : pic'[u] = pic[u]
      /\ outDelayed'[next] = c
      /\ \A s \in Slots \ {next} : outDelayed'[s] = outDelayed[s]
  BY <1>1, <1>2 DEF TypeOK, GhostTypes, QueueTypes
<1>5. RingInv' /\ RetvalInv' /\ OutInv' /\ OutputsInv' /\ OutputInOrder' /\ NothingLost'
  BY <1>1, <1>2, <1>3, <1>4, PopStep
<1>6. \A u \in UnitIds : pic[u] # None => u # c /\ pic[u] # c
  <2> SUFFICES ASSUME NEW u \in UnitIds, pic[u] # None PROVE u # c /\ pic[u] # c
    OBVIOUS
  <2>1. pic[u] \in UnitIds /\ pic[pic[u]] # None /\ u < c
    BY OlderThanCurrent DEF PicsInv
  <2>2. pic[u] < c
    BY <2>1, OlderThanCurrent
  <2> QED BY <1>2, <2>1, <2>2 DEF UnitIds
<1>7. PicsInv'
  <2>1. Current' = c + 1
    BY <1>1, CurrentType DEF Current, TypeOK, InputTypes
  <2>2. \A u \in UnitIds : u >= Current' => u # c /\ u >= c
    BY <1>2, <2>1 DEF UnitIds
  <2>3. \A u \in UnitIds : u >= Current' => pic'[u] = None /\ status'[u] = "none"
    BY <1>1, <1>4, <2>2 DEF PicsInv
  <2>4. ASSUME NEW u \in UnitIds, pic'[u] # None
        PROVE  pic'[u] <= u /\ pic'[pic'[u]] = pic'[u] /\ status'[pic'[u]] # "none"
    <3>1. CASE u = c
      BY <1>1, <1>2, <1>3, <1>4, <3>1 DEF UnitIds
    <3>2. CASE u # c
      <4>1. pic'[u] = pic[u] /\ pic[u] \in UnitIds /\ pic[u] # c
        BY <1>4, <1>6, <2>4, <3>2, OlderThanCurrent
      <4> QED BY <1>1, <1>4, <2>4, <4>1 DEF PicsInv
    <3> QED BY <3>1, <3>2
  <2> QED BY <2>3, <2>4 DEF PicsInv
<1>8. WorkInv'
  <2>1. ASSUME NEW s \in Slots, ~Idle(s)
        PROVE  outDelayed'[s] = working[s] /\ pic'[working[s]] = working[s]
    <3>1. s # next /\ working[s] \in UnitIds /\ working[s] # c
      BY <1>1, <1>2, <2>1, OlderThanCurrent DEF UnitIds
    <3> QED BY <1>4, <2>1, <3>1 DEF WorkInv
  <2> QED BY <1>1, <2>1 DEF WorkInv, Idle
<1>9. RefInv'
  BY <1>1, <1>2, <1>3, <1>4 DEF RefInv, UnitIds
<1> QED BY <1>5, <1>7, <1>8, <1>9

----------------------------------------------------------------------------
(* Steps that output a picture *)

\* The picture output becomes the last that the client has.
LEMMA LastOutput ==
  ASSUME TypeOK, NEW u \in UnitIds, outputs' = Append(outputs, u)
  PROVE  /\ Len(outputs) \in Nat /\ Len(outputs') = Len(outputs) + 1
         /\ \A i \in 1 .. Len(outputs) : outputs'[i] = outputs[i] /\ outputs[i] \in UnitIds
         /\ outputs'[Len(outputs')] = u
<1>1. outputs \in Seq(UnitIds)
  BY DEF TypeOK, GhostTypes
<1>2. Len(outputs) \in Nat /\ Len(outputs') = Len(outputs) + 1
  BY <1>1, LenProperties, AppendProperties
<1>3. \A i \in 1 .. Len(outputs) : outputs'[i] = outputs[i] /\ outputs[i] \in UnitIds
  BY <1>1, AppendProperties, ElementOfSeq
<1>4. outputs'[Len(outputs')] = u
  BY <1>1, <1>2, AppendProperties
<1> QED BY <1>2, <1>3, <1>4

\* The oldest picture that waits can be output, and keeps the order.
LEMMA DeliverStep ==
  ASSUME IInv, NEW u \in UnitIds, outputs' = Append(outputs, u), pic[u] # None,
         pic' = pic, out' = None,
         \A i \in 1 .. Len(outputs) : outputs[i] < u,
         \A s \in Slots : outDelayed'[s] # None =>
           outDelayed'[s] = outDelayed[s] /\ u < outDelayed[s]
  PROVE  OutputsInv' /\ OutputInOrder' /\ \E i \in 1 .. Len(outputs') : outputs'[i] = u
<1> DEFINE n == Len(outputs)
<1>1. /\ n \in Nat /\ Len(outputs') = n + 1
      /\ \A i \in 1 .. n : outputs'[i] = outputs[i] /\ outputs[i] \in UnitIds
      /\ outputs'[n + 1] = u
  BY LastOutput DEF IInv
<1>2. \A i \in 1 .. n + 1 : i \in 1 .. n \/ i = n + 1
  BY <1>1
<1>3. OutputsInv'
  BY <1>1, <1>2 DEF OutputsInv, IInv
<1>4. OutputInOrder'
  <2> SUFFICES ASSUME NEW i \in 1 .. n + 1, NEW j \in 1 .. n + 1, i < j
               PROVE  outputs'[i] < outputs'[j]
    BY <1>1 DEF OutputInOrder
  <2>1. i \in 1 .. n
    BY <1>1
  <2>2. CASE j \in 1 .. n
    BY <1>1, <2>1, <2>2 DEF OutputInOrder, IInv
  <2>3. CASE j = n + 1
    BY <1>1, <2>1, <2>3
  <2> QED BY <1>2, <2>2, <2>3
<1> QED BY <1>1, <1>3, <1>4

\* dav1d_get_picture returns the picture in state.out.
LEMMA GetReadyStep == ASSUME IInv, TypeOK', GetReady PROVE IInv'
<1> USE DEF IInv
<1>1. /\ out # None /\ out' = None /\ pc' # "drain"
      /\ \/ outputs' = Append(outputs, out) /\ uncopied' = uncopied
         \/ outputs' = outputs /\ uncopied' = uncopied \cup {out}
      /\ UNCHANGED <<sent, in0, ref, ring, pic, status>>
  BY DEF GetReady, Output, Return, input
<1>2. out \in UnitIds /\ pic[out] # None
  BY <1>1, OlderThanCurrent DEF OutInv
<1>3. /\ OutputsInv' /\ OutputInOrder'
      /\ out \in uncopied' \/ \E i \in 1 .. Len(outputs') : outputs'[i] = out
      /\ \A w \in UnitIds : (\E i \in 1 .. Len(outputs) : outputs[i] = w) =>
                              \E i \in 1 .. Len(outputs') : outputs'[i] = w
  <2>1. CASE outputs' = Append(outputs, out)
    <3>1. \A i \in 1 .. Len(outputs) : outputs[i] < out
      BY <1>1 DEF OutputsInv
    <3>2. \A s \in Slots : outDelayed[s] # None => out < outDelayed[s]
      BY <1>1 DEF OutInv
    <3>3. OutputsInv' /\ OutputInOrder' /\ \E i \in 1 .. Len(outputs') : outputs'[i] = out
      BY <1>1, <1>2, <2>1, <3>1, <3>2, DeliverStep DEF ring
    <3> QED BY <1>2, <2>1, <3>3, LastOutput
  <2>2. CASE outputs' = outputs /\ uncopied' = uncopied \cup {out}
    BY <1>1, <2>2 DEF OutputsInv, OutputInOrder, ring
  <2> QED BY <1>1, <2>1, <2>2
<1>4. PicsInv' /\ WorkInv' /\ RetvalInv' /\ RefInv'
  BY <1>1 DEF PicsInv, WorkInv, RetvalInv, RefInv, Idle, Current, ring
<1>5. RingInv'
  BY <1>1 DEF RingInv, Pos, ring
<1>6. OutInv'
  BY <1>1 DEF OutInv
<1>7. NothingLost'
  <2> SUFFICES ASSUME NEW w \in UnitIds, w <= Len(sent), Visible(w), pic[w] # None,
                      status[pic[w]] \in {"decoding", "ok"}
               PROVE  \/ \E s \in Slots : outDelayed[s] = w
                      \/ \E i \in 1 .. Len(outputs') : outputs'[i] = w
                      \/ w \in uncopied'
    BY <1>1 DEF NothingLost, Visible, ring
  <2>1. \/ w = out
        \/ \E s \in Slots : outDelayed[s] = w
        \/ \E i \in 1 .. Len(outputs) : outputs[i] = w
        \/ w \in uncopied
    BY DEF NothingLost
  <2>2. uncopied \subseteq uncopied'
    BY <1>1
  <2> QED BY <1>3, <2>1, <2>2
<1> QED BY <1>3, <1>4, <1>5, <1>6, <1>7

\* drain_picture empties a slot.
LEMMA DrainSlotStep == ASSUME IInv, TypeOK', DrainSlot PROVE IInv'
<1> USE DEF IInv
<1> DEFINE u == outDelayed[next]
<1>1. /\ Idle(next) /\ next' = Succ(next) /\ out = None /\ out' = None /\ NFc > 1
      /\ outDelayed' = [outDelayed EXCEPT ![next] = None]
      /\ retval' = [retval EXCEPT ![next] = FALSE]
      /\ \/ outputs' = outputs /\ uncopied' = uncopied /\ (retval[next] \/ ~Shows(u))
         \/ outputs' = Append(outputs, u) /\ uncopied' = uncopied /\ ~retval[next] /\ Shows(u)
         \/ outputs' = outputs /\ uncopied' = uncopied \cup {u} /\ ~retval[next] /\ Shows(u)
      /\ UNCHANGED <<sent, in0, ref, working, pic, status>>
  BY DEF DrainSlot, Output, input, OutInv
<1>2. /\ outDelayed'[next] = None
      /\ \A s \in Slots \ {next} : outDelayed'[s] = outDelayed[s]
      /\ \A s \in Slots : retval'[s] = (s # next /\ retval[s])
  BY <1>1 DEF TypeOK, QueueTypes
<1>3. PicsInv' /\ RefInv'
  BY <1>1 DEF PicsInv, RefInv, Current
<1>4. WorkInv' /\ RetvalInv'
  <2>1. WorkInv'
    BY <1>1, <1>2 DEF WorkInv, Idle
  <2>2. RetvalInv'
    BY <1>1, <1>2 DEF RetvalInv, Idle
  <2> QED BY <2>1, <2>2
<1>5. RingInv'
  <2>1. \A s, t \in Slots :
          outDelayed'[s] # None /\ outDelayed'[t] # None /\ Pos(s)' < Pos(t)' =>
            outDelayed'[s] < outDelayed'[t]
    BY <1>1, RingRotates DEF Pics
  <2> QED BY <1>1, <1>2, <2>1 DEF RingInv, Slots
<1>6. OutInv'
  BY <1>1 DEF OutInv
<1>7. Shows(u) => u \in UnitIds /\ pic[u] # None
  BY OlderThanCurrent DEF Shows, Visible, RingInv, TypeOK, QueueTypes
<1>8. /\ OutputsInv' /\ OutputInOrder'
      /\ outputs' # outputs => \E i \in 1 .. Len(outputs') : outputs'[i] = u
      /\ \A w \in UnitIds : (\E i \in 1 .. Len(outputs) : outputs[i] = w) =>
                              \E i \in 1 .. Len(outputs') : outputs'[i] = w
  <2>1. CASE outputs' = outputs
    BY <1>1, <1>2, <2>1 DEF OutputsInv, OutputInOrder
  <2>2. CASE outputs' = Append(outputs, u) /\ ~retval[next] /\ Shows(u)
    <3>1. \A i \in 1 .. Len(outputs) : outputs[i] < u
      BY <1>7, <2>2 DEF OutputsInv, TypeOK, QueueTypes, Shows, Visible
    <3>2. \A s \in Slots : outDelayed'[s] # None => outDelayed'[s] = outDelayed[s] /\ u < outDelayed[s]
      BY <1>1, <1>2, <2>2, NextIsOldest DEF Shows, Visible
    <3>3. OutputsInv' /\ OutputInOrder' /\ \E i \in 1 .. Len(outputs') : outputs'[i] = u
      BY <1>1, <1>7, <2>2, <3>1, <3>2, DeliverStep
    <3> QED BY <1>7, <2>2, <3>3, LastOutput
  <2> QED BY <1>1, <2>1, <2>2
<1>9. NothingLost'
  <2> SUFFICES ASSUME NEW w \in UnitIds, w <= Len(sent), Visible(w), pic[w] # None,
                      status[pic[w]] \in {"decoding", "ok"}
               PROVE  \/ \E s \in Slots : outDelayed'[s] = w
                      \/ \E i \in 1 .. Len(outputs') : outputs'[i] = w
                      \/ w \in uncopied'
    BY <1>1 DEF NothingLost, Visible
  <2>1. w # None
    BY DEF UnitIds, None
  <2>2. \/ \E s \in Slots : outDelayed[s] = w
        \/ \E i \in 1 .. Len(outputs) : outputs[i] = w
        \/ w \in uncopied
    BY <1>1, <2>1 DEF NothingLost
  <2>3. CASE u = w
    <3>1. NFc > 1
      BY <2>1, <2>3 DEF RingInv, Slots, TypeOK, QueueTypes
    <3>2. ~retval[next] /\ Shows(u)
      BY <2>3, <3>1 DEF RetvalInv, Shows, TypeOK, QueueTypes
    <3>3. outputs' = Append(outputs, u) \/ u \in uncopied'
      BY <1>1, <3>2
    <3> QED BY <1>7, <2>3, <3>2, <3>3, LastOutput
  <2>4. uncopied \subseteq uncopied'
    BY <1>1
  <2> QED BY <1>2, <1>8, <2>2, <2>3, <2>4
<1> QED BY <1>3, <1>4, <1>5, <1>6, <1>8, <1>9

----------------------------------------------------------------------------
(* Steps with one frame context, and the flush *)

\* With one frame context nothing waits in the ring and nothing is being
\* decoded between two steps.
LEMMA SingleIsIdle ==
  ASSUME IInv, NFc = 1
  PROVE  /\ \A s \in Slots : s = 0 /\ Idle(s) /\ outDelayed[s] = None
         /\ \A u \in UnitIds : status[u] # "decoding"
<1> USE DEF IInv
<1>1. \A s \in Slots : s = 0 /\ outDelayed[s] = None
  BY DEF RingInv, Slots
<1>2. \A s \in Slots : Idle(s)
  BY <1>1 DEF WorkInv, Idle
<1>3. \A u \in UnitIds : status[u] # "decoding"
  BY <1>2 DEF WorkInv, Idle, UnitIds, None
<1> QED BY <1>1, <1>2, <1>3

\* rav1d_decode_frame inside the call, or a reference shown at once: the unit
\* that is parsed gets its picture and the ring stays as it is.
LEMMA SingleStep ==
  ASSUME IInv, TypeOK', NFc = 1, ~Ready, in0 # 0, in0' \in {in0 - 1, 0}, pc' # "drain",
         NEW p \in UnitIds, pic' = [pic EXCEPT ![Current] = p],
         p = Current \/ pic[p] = p,
         NEW v \in {"ok", "failed"}, status' = [status EXCEPT ![p] = v],
         p # Current => v = "ok" /\ status[p] = "ok",
         out' \in {None, Current}, out' = Current <=> v = "ok" /\ Visible(Current),
         ref' = ref \/ ref' = None \/ (ref' = p /\ v = "ok"),
         UNCHANGED <<sent, next, outDelayed, working, outputs, uncopied>>
  PROVE  IInv'
<1> USE DEF IInv
<1> DEFINE c == Current
<1>1. /\ c \in UnitIds /\ c # None /\ c < Len(sent) + 1 /\ Len(sent) \in Nat
      /\ p <= c /\ Current' \in Int /\ c < Current'
  <2>1. c \in UnitIds /\ c # None /\ c < Len(sent) + 1 /\ Len(sent) \in Nat
    BY CurrentType DEF UnitIds, None
  <2>2. p <= c
    BY <2>1, OlderThanCurrent DEF UnitIds, None
  <2>3. Current' \in Int /\ c < Current'
    BY <2>1 DEF Current, TypeOK, InputTypes
  <2> QED BY <2>1, <2>2, <2>3
<1>2. /\ pic'[c] = p /\ status'[p] = v
      /\ \A u \in UnitIds \ {c} : pic'[u] = pic[u]
      /\ \A u \in UnitIds \ {p} : status'[u] = status[u]
      /\ \A u \in UnitIds : u # c => status'[u] = status[u]
  BY <1>1 DEF TypeOK, GhostTypes
<1>3. \A u \in UnitIds : pic[u] # None =>
        u # c /\ pic[u] # c /\ pic[u] \in UnitIds /\ pic'[u] = pic[u] /\ status'[pic[u]] = status[pic[u]]
  <2> SUFFICES ASSUME NEW u \in UnitIds, pic[u] # None
               PROVE  u # c /\ pic[u] # c /\ pic[u] \in UnitIds
    BY <1>2
  <2>1. pic[u] \in UnitIds /\ pic[pic[u]] # None /\ u < c
    BY OlderThanCurrent DEF PicsInv
  <2>2. pic[u] < c
    BY <2>1, OlderThanCurrent
  <2> QED BY <1>1, <2>1, <2>2 DEF UnitIds
<1>4. PicsInv'
  <2>1. \A u \in UnitIds : u >= Current' => pic'[u] = None /\ status'[u] = "none"
    BY <1>1, <1>2 DEF PicsInv, UnitIds
  <2>2. ASSUME NEW u \in UnitIds, pic'[u] # None
        PROVE  pic'[u] <= u /\ pic'[pic'[u]] = pic'[u] /\ status'[pic'[u]] # "none"
    <3>1. CASE u = c
      <4>1. pic'[p] = p
        BY <1>2, <1>3 DEF UnitIds, None
      <4> QED BY <1>1, <1>2, <3>1, <4>1
    <3>2. CASE u # c
      BY <1>2, <1>3, <2>2, <3>2 DEF PicsInv
    <3> QED BY <3>1, <3>2
  <2> QED BY <2>1, <2>2 DEF PicsInv
<1>5. WorkInv'
  BY <1>2, SingleIsIdle DEF WorkInv, Idle
<1>6. RingInv' /\ RetvalInv'
  BY SingleIsIdle DEF RingInv, RetvalInv, Slots
<1>7. OutInv'
  <2>1. out' # None => pic'[out'] = p /\ status'[p] = "ok" /\ Visible(out)'
    BY <1>2 DEF Visible
  <2>2. p # None
    BY DEF UnitIds, None
  <2> QED BY <2>1, <2>2, SingleIsIdle DEF OutInv
<1>8. RefInv'
  <2>1. CASE ref' = ref /\ ref # None
    <3>1. ref \in UnitIds /\ pic[ref] = ref
      BY <2>1 DEF RefInv, TypeOK, QueueTypes, Pics
    <3> QED BY <1>3, <2>1, <3>1 DEF RefInv
  <2>2. CASE ref' = p /\ v = "ok"
    <3>1. pic'[p] = p
      BY <1>2, <1>3 DEF UnitIds, None
    <3> QED BY <1>2, <2>2, <3>1 DEF RefInv
  <2> QED BY <2>1, <2>2 DEF RefInv
<1>9. OutputsInv' /\ OutputInOrder'
  <2>1. \A i \in 1 .. Len(outputs) : outputs[i] < c /\ pic'[outputs[i]] # None
    BY <1>3, OlderThanCurrent DEF OutputsInv
  <2> QED BY <2>1, SingleIsIdle DEF OutputsInv, OutputInOrder
<1>10. NothingLost'
  <2> SUFFICES ASSUME NEW u \in UnitIds, u <= Len(sent), Visible(u), pic'[u] # None,
                      status'[pic'[u]] \in {"decoding", "ok"}
               PROVE  u = out' \/ u \in uncopied \/ \E i \in 1 .. Len(outputs) : outputs[i] = u
    BY DEF NothingLost, Visible
  <2>1. CASE u = c
    BY <1>2, <2>1
  <2>2. CASE u # c
    <3>1. pic[u] # None /\ status[pic[u]] \in {"decoding", "ok"}
      BY <1>2, <1>3, <2>2
    <3> QED BY <3>1, SingleIsIdle DEF NothingLost, Ready, UnitIds, None
  <2> QED BY <2>1, <2>2
<1> QED BY <1>4, <1>5, <1>6, <1>7, <1>8, <1>9, <1>10

\* rav1d_flush forgets every picture.
LEMMA FlushStep == ASSUME IInv, TypeOK', Flush PROVE IInv'
<1> USE DEF IInv
<1>1. /\ in0' = 0 /\ out' = None /\ ref' = None /\ pc' # "drain"
      /\ \A s \in Slots : outDelayed'[s] = None /\ working'[s] = None /\ ~retval'[s]
      /\ \A u \in UnitIds : status'[u] = IF u <= Len(sent) THEN "flushed" ELSE "none"
      /\ UNCHANGED <<sent, pic, outputs, uncopied>>
  BY DEF Flush
<1>2. \A u \in UnitIds : pic[u] # None =>
        pic[u] \in UnitIds /\ pic[u] <= u /\ u <= Len(sent) /\ status'[pic[u]] = "flushed"
  BY <1>1, OlderThanCurrent, CurrentType DEF PicsInv, UnitIds
<1>3. PicsInv'
  BY <1>1, <1>2, CurrentType DEF PicsInv, Current, UnitIds
<1>4. WorkInv' /\ RetvalInv' /\ RefInv'
  BY <1>1 DEF WorkInv, RetvalInv, RefInv, Idle
<1>5. RingInv' /\ OutInv'
  BY <1>1 DEF RingInv, OutInv, Slots
<1>6. OutputsInv' /\ OutputInOrder'
  BY <1>1 DEF OutputsInv, OutputInOrder
<1>7. NothingLost'
  BY <1>1, <1>2 DEF NothingLost
<1> QED BY <1>3, <1>4, <1>5, <1>6, <1>7

----------------------------------------------------------------------------
(* The invariant and its consequences *)

\* Every step keeps the invariant.
LEMMA Step_Inv == IInv /\ [Next]_vars => IInv'
<1> SUFFICES ASSUME IInv, [Next]_vars PROVE IInv'
  OBVIOUS
<1>0. TypeOK /\ TypeOK' /\ in0 \in Int /\ in0 >= 0
  BY TypeStep DEF IInv, TypeOK, InputTypes
<1>1. CASE SendPacket
  BY <1>0, <1>1, SendStep
<1>2. CASE \E s \in Slots : Decoded(s)
  BY <1>0, <1>2, DecodedStep
<1>3. CASE SubmitFrame
  BY <1>0, <1>3, SubmitStep
<1>4. CASE SubmitRejected
  BY <1>0, <1>4, RejectedStep
<1>5. CASE ShowExisting
  BY <1>0, <1>5, ShowExistingStep
<1>6. CASE GetReady
  BY <1>0, <1>6, GetReadyStep
<1>7. CASE DrainSlot
  BY <1>0, <1>7, DrainSlotStep
<1>8. CASE Flush
  BY <1>0, <1>8, FlushStep
<1>9. CASE Send \/ Get \/ SendDone \/ GetError \/ GetAgain \/ DrainAgain
  <2>1. /\ UNCHANGED <<sent, out, ref, next, outDelayed, working, retval, ghost>>
        /\ in0' = in0 /\ pc' # "drain"
    BY <1>9 DEF Send, Get, SendDone, GetError, GetAgain, DrainAgain, Return, input, ring
  <2> QED BY <1>0, <2>1, QuietStep
<1>10. CASE GetDrain \/ DrainStop
  <2>1. /\ UNCHANGED <<sent, out, ref, next, outDelayed, working, retval, ghost>>
        /\ in0' = in0 /\ out = None /\ NFc > 1
    BY <1>10 DEF GetDrain, DrainStop, Ready, input, ring, IInv, OutInv
  <2> QED BY <1>0, <2>1, QuietStep
<1>11. CASE ParseOther \/ ParseMalformed
  <2>1. /\ UNCHANGED <<sent, out, ref, next, outDelayed, working, retval, ghost>>
        /\ (in0' = in0 - 1 \/ in0' = 0) /\ pc' # "drain"
    BY <1>11 DEF ParseOther, ParseMalformed, Parsing, Consume, Fail, Return, ring
  <2> QED BY <1>0, <2>1, QuietStep
<1>12. CASE RejectSingle
  <2>1. /\ UNCHANGED <<sent, out, ref, next, outDelayed, working, retval, ghost>>
        /\ in0' = 0 /\ pc' # "drain"
    BY <1>12 DEF RejectSingle, Parsing, Fail, Return, Ready
  <2> QED BY <1>0, <2>1, QuietStep
<1>13. CASE DecodeSingle \/ DecodeSingleFails
  <2> DEFINE c == Current
  <2>1. /\ NFc = 1 /\ ~Ready /\ in0 # 0 /\ in0' \in {in0 - 1, 0} /\ pc' # "drain"
        /\ sent[c] \in {"shown", "hidden"}
        /\ pic' = [pic EXCEPT ![c] = c]
        /\ UNCHANGED <<sent, next, outDelayed, working, outputs, uncopied>>
    BY <1>13 DEF DecodeSingle, DecodeSingleFails, Parsing, Consume
  <2>2. c \in UnitIds /\ c # None /\ out = None
    BY <1>0, <2>1, CurrentType DEF Ready, UnitIds, None
  <2>3. CASE DecodeSingle
    <3>1. /\ status' = [status EXCEPT ![c] = "ok"] /\ ref' \in {ref, c}
          /\ out' = IF sent[c] = "shown" THEN c ELSE None
      BY <2>2, <2>3 DEF DecodeSingle
    <3>2. out' \in {None, c} /\ (out' = c <=> "ok" = "ok" /\ Visible(c))
      BY <2>1, <2>2, <3>1 DEF Visible
    <3> QED BY <1>0, <2>1, <2>2, <3>1, <3>2, SingleStep
  <2>4. CASE DecodeSingleFails
    <3>1. /\ status' = [status EXCEPT ![c] = "failed"] /\ ref' \in {ref, None}
          /\ out' = None
      BY <2>4 DEF DecodeSingleFails
    <3>2. out' \in {None, c} /\ (out' = c <=> "failed" = "ok" /\ Visible(c))
      BY <2>2, <3>1
    <3> QED BY <1>0, <2>1, <2>2, <3>1, <3>2, SingleStep
  <2> QED BY <1>13, <2>3, <2>4
<1>14. CASE ShowExistingSingle
  <2> DEFINE c == Current
  <2>1. /\ NFc = 1 /\ ~Ready /\ in0 # 0 /\ in0' \in {in0 - 1, 0} /\ pc' # "drain"
        /\ sent[c] = "existing" /\ ref # None /\ out' = c
        /\ pic' = [pic EXCEPT ![c] = ref]
        /\ UNCHANGED <<sent, ref, next, outDelayed, working, status, outputs, uncopied>>
    BY <1>14 DEF ShowExistingSingle, Parsing, Consume, ring
  <2>2. ref \in UnitIds /\ pic[ref] = ref /\ status[ref] = "ok"
    BY <1>0, <2>1 DEF IInv, RefInv, TypeOK, QueueTypes, Pics
  <2>3. status' = [status EXCEPT ![ref] = "ok"]
    BY <1>0, <2>1, <2>2 DEF TypeOK, GhostTypes
  <2>4. out' \in {None, c} /\ (out' = c <=> "ok" = "ok" /\ Visible(c))
    BY <1>0, <2>1, CurrentType DEF Visible, UnitIds, None
  <2> QED BY <1>0, <2>1, <2>2, <2>3, <2>4, SingleStep
<1>15. CASE UNCHANGED vars
  <2>1. /\ UNCHANGED <<sent, out, ref, next, outDelayed, working, retval, ghost>>
        /\ in0' = in0 /\ pc' = pc
    BY <1>15 DEF vars, input, ring
  <2> QED BY <1>0, <2>1, QuietStep DEF IInv, OutInv
<1> QED
  BY <1>1, <1>2, <1>3, <1>4, <1>5, <1>6, <1>7, <1>8, <1>9, <1>10, <1>11, <1>12, <1>13,
     <1>14, <1>15 DEF Next, Call, Step

\* The inductive invariant holds in every reachable state.
THEOREM Invariance == Spec => []IInv
BY InitInv, Step_Inv, PTL DEF Spec

\* Every variable keeps its type.
THEOREM TypeCorrect == Spec => []TypeOK
BY Invariance, PTL DEF IInv

\* dav1d_get_picture returns the pictures in the order in which their frames
\* were sent, each at most once, with any number of frame contexts.
THEOREM OrderedOutput == Spec => []OutputInOrder
BY Invariance, PTL DEF IInv

\* No visible frame that was decoded leaves the decoder but to the client.
THEOREM NothingIsLost == Spec => []NothingLost
BY Invariance, PTL DEF IInv

\* A picture that is returned is completely decoded.
THEOREM OutputIsDecoded == Spec => OutputDecoded
<1>1. ASSUME IInv, [Next]_vars
      PROVE  [\A u \in UnitIds : outputs' = Append(outputs, u) => status[pic[u]] = "ok"]_vars
  <2> SUFFICES ASSUME Next, NEW u \in UnitIds, outputs' = Append(outputs, u)
               PROVE  status[pic[u]] = "ok"
    BY <1>1
  <2>1. outputs \in Seq(UnitIds) /\ outputs' # outputs
    <3>1. outputs \in Seq(UnitIds)
      BY <1>1 DEF IInv, TypeOK, GhostTypes
    <3> QED BY <3>1, AppendProperties, LenProperties
  <2>2. ASSUME NEW v \in UnitIds, outputs' = Append(outputs, v) PROVE u = v
    BY <1>1, <2>2, LastOutput DEF IInv
  <2>3. GetReady \/ DrainSlot
    BY <1>1, <2>1 DEF Next, Call, Step, Send, SendPacket, Get, Flush, SendDone, GetError, GetDrain,
       GetAgain, ParseOther, ParseMalformed, SubmitFrame, SubmitRejected, ShowExisting,
       DrainStop, DrainAgain, DecodeSingle, DecodeSingleFails, RejectSingle,
       ShowExistingSingle, Decoded, ghost
  <2>4. CASE GetReady
    <3>1. out # None /\ outputs' = Append(outputs, out) /\ out \in UnitIds
      BY <1>1, <2>4, OlderThanCurrent DEF GetReady, Output
    <3> QED BY <1>1, <2>2, <3>1 DEF IInv, OutInv
  <2>5. CASE DrainSlot
    <3> DEFINE o == outDelayed[next]
    <3>1. Idle(next) /\ outputs' = Append(outputs, o) /\ Shows(o)
      BY <2>1, <2>5 DEF DrainSlot, Output
    <3>2. o # None /\ o \in UnitIds /\ status[pic[o]] # "failed"
      BY <1>1, <3>1 DEF Shows, Visible, IInv, TypeOK, QueueTypes, Pics
    <3> QED BY <1>1, <2>2, <3>1, <3>2, NextIsOldest
  <2> QED BY <2>3, <2>4, <2>5
<1> QED BY <1>1, Invariance, PTL DEF Spec, OutputDecoded

\* An error of a worker is returned or cached, and never overwritten.
THEOREM ErrorsAreKept == Spec => ErrorsKept
<1> DEFINE Kept(s) ==
      retval[s] /\ ~retval'[s] =>
        outDelayed[s] # None /\
        (cachedError' = outDelayed[s] \/ result' = Outcome("error", outDelayed[s]))
    Returned == cachedError \notin {None, cachedError'} => result' = Outcome("error", cachedError)
<1>1. ASSUME IInv, Next, flushes' = flushes PROVE Returned /\ \A s \in Slots : Kept(s)
  <2> USE DEF IInv, TypeOK, QueueTypes
  <2>1. ASSUME UNCHANGED <<cachedError, retval>> PROVE Returned /\ \A s \in Slots : Kept(s)
    BY <2>1
  <2>2. ASSUME NFc > 1, PopSlot(next), cachedError = None
        PROVE  Returned /\ \A s \in Slots : Kept(s)
    BY <1>1, <2>2 DEF PopSlot, RetvalInv
  <2>3. CASE SubmitFrame \/ SubmitRejected \/ ShowExisting
    <3>1. NFc > 1 /\ PopSlot(next) /\ cachedError = None
      BY <2>3 DEF SubmitFrame, SubmitRejected, ShowExisting, Parsing, Ready
    <3> QED BY <2>2, <3>1
  <2>4. CASE DrainSlot
    <3>1. /\ NFc > 1 /\ cachedError' = cachedError
          /\ retval' = [retval EXCEPT ![next] = FALSE]
          /\ retval[next] => result' = Outcome("error", outDelayed[next])
      BY <1>1, <2>4 DEF DrainSlot, Return, OutInv
    <3>2. \A s \in Slots : retval[s] /\ ~retval'[s] => s = next /\ outDelayed[s] # None
      BY <1>1, <3>1 DEF RetvalInv
    <3> QED BY <3>1, <3>2
  <2>5. CASE GetError
    BY <1>1, <2>5 DEF GetError, Return, ring
  <2>6. CASE \E w \in Slots : Decoded(w)
    <3> PICK w \in Slots : Decoded(w)
      BY <2>6
    <3>1. ~Idle(w) /\ cachedError' = cachedError /\ \A s \in Slots \ {w} : retval'[s] = retval[s]
      BY <1>1 DEF Decoded, cached
    <3>2. ~retval[w]
      <4>1. outDelayed[w] # None
        BY <1>1, <3>1 DEF WorkInv, Idle
      <4>2. NFc > 1
        BY <1>1, <4>1 DEF RingInv, Slots
      <4> QED BY <1>1, <3>1, <4>2 DEF RetvalInv
    <3> QED BY <3>1, <3>2
  <2>7. CASE Flush
    BY <1>1, <2>7 DEF Flush, CountTypes
  <2>8. CASE DecodeSingleFails
    BY <1>1, <2>8 DEF DecodeSingleFails, cached
  <2>9. CASE \/ Send \/ SendPacket \/ Get \/ SendDone \/ GetReady \/ GetDrain \/ GetAgain
             \/ ParseOther \/ ParseMalformed \/ DrainStop \/ DrainAgain
             \/ DecodeSingle \/ RejectSingle \/ ShowExistingSingle
    <3>1. UNCHANGED <<cachedError, retval>>
      BY <2>9 DEF Send, SendPacket, Get, SendDone, GetReady, GetDrain, GetAgain, ParseOther,
         ParseMalformed, DrainStop, DrainAgain, DecodeSingle, RejectSingle,
         ShowExistingSingle, cached, ring
    <3> QED BY <2>1, <3>1
  <2> QED
    BY <1>1, <2>3, <2>4, <2>5, <2>6, <2>7, <2>8, <2>9 DEF Next, Call, Step
<1>2. ASSUME IInv, [Next]_vars
      PROVE  [flushes' = flushes => (\A s \in Slots : Kept(s)) /\ Returned]_vars
  BY <1>1, <1>2
<1> QED BY <1>2, Invariance, PTL DEF Spec, ErrorsKept

----------------------------------------------------------------------------
(* The queue *)

\* What a client can tell of a unit does not change unless its picture does.
LEMMA VerdictSame ==
  ASSUME NEW u \in UnitIds, pic'[u] = pic[u],
         pic[u] # None => status'[pic[u]] = status[pic[u]] /\ sent'[u] = sent[u]
  PROVE  Verdict(u)' = Verdict(u)
BY DEF Verdict, Visible

\* The initial state is that of an empty queue.
LEMMA QueueInit == Init => Queue!Init
BY DEF Init, Queue!Init, Waiting, Verdict

\* Steps that change neither a picture nor where one waits are not seen.
LEMMA QueueStutter ==
  ASSUME IInv, UNCHANGED <<out, outDelayed, pic, status, outputs, uncopied>>,
         \A u \in UnitIds : pic[u] # None => sent'[u] = sent[u]
  PROVE  UNCHANGED Queue!vars
<1>1. \A u \in UnitIds : Verdict(u)' = Verdict(u)
  BY VerdictSame
<1>2. [u \in UnitIds |-> Verdict(u)]' = [u \in UnitIds |-> Verdict(u)]
  BY <1>1
<1>3. Waiting' = Waiting
  BY DEF Waiting
<1> QED BY <1>2, <1>3 DEF Queue!vars

\* A frame that is finished decides for every unit that shows it.
LEMMA QueueDecoded == ASSUME IInv, NEW w \in Slots, Decoded(w) PROVE Queue!Decide
<1> USE DEF IInv
<1> DEFINE v == working[w]
           S == {u \in UnitIds : Verdict(u) = "pending" /\ pic[u] = v}
<1>1. v \in UnitIds /\ v # None /\ pic[v] = v /\ status[v] = "decoding"
  BY OlderThanCurrent DEF WorkInv, Decoded, Idle
<1>2. /\ status'[v] \in {"ok", "failed"}
      /\ \A u \in UnitIds \ {v} : status'[u] = status[u]
      /\ UNCHANGED <<sent, out, outDelayed, pic, outputs, uncopied>>
  BY <1>1 DEF Decoded, TypeOK, GhostTypes
<1>3. PICK a \in {"show", "skip"} : a = IF status'[v] = "ok" THEN "show" ELSE "skip"
  OBVIOUS
<1>4. ASSUME NEW u \in UnitIds PROVE Verdict(u)' = IF u \in S THEN a ELSE Verdict(u)
  <2>1. CASE pic[u] = v
    BY <1>1, <1>2, <1>3, <2>1 DEF Verdict, Visible
  <2>2. CASE pic[u] # v
    <3>1. pic[u] # None => pic[u] \in UnitIds
      BY OlderThanCurrent
    <3>2. Verdict(u)' = Verdict(u)
      BY <1>2, <2>2, <3>1, VerdictSame
    <3> QED BY <2>2, <3>2
  <2> QED BY <2>1, <2>2
<1> DEFINE vd == [u \in UnitIds |-> Verdict(u)]
<1>5. vd' = [u \in UnitIds |-> IF u \in S THEN a ELSE vd[u]]
  BY <1>4
<1>6. Waiting' = Waiting
  BY <1>2 DEF Waiting
<1>7. S \in SUBSET {u \in UnitIds : vd[u] = "pending"}
  OBVIOUS
<1> HIDE DEF S
<1> QED BY <1>2, <1>5, <1>6, <1>7 DEF Queue!Decide

\* The slot that next leaves: its picture becomes the output, or it is not to
\* be shown and the oldest of those that wait.
LEMMA SlotLeft ==
  ASSUME IInv, out = None, Idle(next), NEW x \in {None} \cup UnitIds,
         outDelayed' = [outDelayed EXCEPT ![next] = x],
         out' = None \/ out' = outDelayed[next],
         NFc > 1,
         out' = None => outDelayed[next] = None \/ retval[next] \/ ~Shows(outDelayed[next])
  PROVE  \E q \in Queue!Skipped : Waiting' = q \cup ({x} \ {None})
<1> USE DEF IInv, TypeOK, QueueTypes
<1> DEFINE o == outDelayed[next]
<1>1. outDelayed'[next] = x /\ \A s \in Slots \ {next} : outDelayed'[s] = outDelayed[s]
  OBVIOUS
<1>2. CASE out' = o
  <2>1. Waiting' = Waiting \cup ({x} \ {None})
    BY <1>1, <1>2 DEF Waiting
  <2> QED BY <2>1 DEF Queue!Skipped
<1>3. CASE out' # o
  <2>1. out' = None /\ o # None /\ o \in UnitIds /\ pic[o] # None
    BY <1>3, OlderThanCurrent DEF RingInv
  <2>2. \A s \in Slots \ {next} : outDelayed[s] # None => o < outDelayed[s] /\ outDelayed[s] \in UnitIds
    BY <2>1, NextIsOldest, OlderThanCurrent
  <2>3. Waiting' = (Waiting \ {o}) \cup ({x} \ {None})
    BY <1>1, <2>1, <2>2 DEF Waiting, UnitIds
  <2>4. Queue!Oldest(o)
    BY <2>1, <2>2 DEF Queue!Oldest, Waiting, UnitIds
  <2>5. Verdict(o) = "skip"
    BY <2>1 DEF RetvalInv, Verdict, Shows
  <2> QED BY <2>1, <2>3, <2>4, <2>5 DEF Queue!Skipped
<1> QED BY <1>2, <1>3

\* A unit that gets its picture joins the queue behind all others.
LEMMA QueueAccept ==
  ASSUME IInv, in0 # 0, NEW q \in Queue!Skipped,
         UNCHANGED <<outputs, uncopied>>,
         \A u \in UnitIds \ {Current} : Verdict(u)' = Verdict(u),
         NEW v \in {"pending", "show", "skip"},
         [u \in UnitIds |-> Verdict(u)]'[Current] = v,
         Waiting' = q \cup {Current} \/ (v = "skip" /\ Waiting' = q)
  PROVE  Current \in UnitIds /\ Queue!Accept(Current)
<1> DEFINE vd == [u \in UnitIds |-> Verdict(u)]
           c == Current
<1>1. c \in UnitIds
  BY CurrentType DEF IInv
<1>2. \A w \in UnitIds : vd[w] # "none" => w < c
  BY OlderThanCurrent DEF Verdict
<1>3. vd' = [vd EXCEPT ![c] = v]
  BY <1>1
<1> HIDE DEF vd
<1>4. Queue!Accept(c)
  BY <1>2, <1>3 DEF Queue!Accept, vd
<1> QED BY <1>1, <1>4

\* Queueing a frame, or a reference to be shown again.
LEMMA QueueSubmit == ASSUME IInv, SubmitFrame \/ ShowExisting PROVE \E u \in UnitIds : Queue!Accept(u)
<1> USE DEF IInv
<1> DEFINE c == Current
<1>1. /\ NFc > 1 /\ ~Ready /\ in0 # 0 /\ Idle(next) /\ PopSlot(next)
      /\ outDelayed' = [outDelayed EXCEPT ![next] = c]
      /\ UNCHANGED <<sent, outputs, uncopied>>
  BY DEF SubmitFrame, ShowExisting, Parsing
<1>2. c \in UnitIds /\ c # None /\ out = None
  BY <1>1, CurrentType DEF Ready, UnitIds, None
<1>3. PICK q \in Queue!Skipped : Waiting' = q \cup {c}
  <2>1. out' = IF ~retval[next] /\ Shows(outDelayed[next]) THEN outDelayed[next] ELSE None
    BY <1>1, <1>2 DEF PopSlot
  <2>2. outDelayed[next] \in {None} \cup UnitIds
    BY DEF TypeOK, QueueTypes, Pics
  <2>3. \E q \in Queue!Skipped : Waiting' = q \cup ({c} \ {None})
    BY <1>1, <1>2, <2>1, <2>2, SlotLeft
  <2> QED BY <1>2, <2>3
<1>4. \A u \in UnitIds : pic[u] # None => u # c /\ pic[u] # c /\ pic[u] \in UnitIds
  <2> SUFFICES ASSUME NEW u \in UnitIds, pic[u] # None
               PROVE  u # c /\ pic[u] # c /\ pic[u] \in UnitIds
    OBVIOUS
  <2>1. pic[u] \in UnitIds /\ pic[pic[u]] # None /\ u < c
    BY OlderThanCurrent DEF PicsInv
  <2>2. pic[u] < c
    BY <2>1, OlderThanCurrent
  <2> QED BY <1>2, <2>1, <2>2 DEF UnitIds
<1>5. /\ pic' = [pic EXCEPT ![c] = pic'[c]]
      /\ \A u \in UnitIds \ {c} : pic'[u] = pic[u] /\ status'[u] = status[u]
  BY <1>2 DEF SubmitFrame, ShowExisting, TypeOK, GhostTypes
<1>6. \A u \in UnitIds \ {c} : Verdict(u)' = Verdict(u)
  BY <1>1, <1>4, <1>5, VerdictSame
<1>7. [u \in UnitIds |-> Verdict(u)]'[c] \in {"pending", "show", "skip"}
  <2>1. pic'[c] # None /\ pic'[c] \in UnitIds
    BY <1>2 DEF SubmitFrame, ShowExisting, TypeOK, GhostTypes, QueueTypes, Pics
  <2>2. [u \in UnitIds |-> Verdict(u)]'[c] =
          IF pic'[c] = None THEN "none"
          ELSE IF c = None \/ sent'[c] = "hidden" \/ status'[pic'[c]] \in {"failed", "flushed"} THEN "skip"
          ELSE IF status'[pic'[c]] = "ok" THEN "show"
          ELSE "pending"
    BY <1>2 DEF Verdict, Visible
  <2> QED BY <2>1, <2>2
<1> QED BY <1>1, <1>3, <1>6, <1>7, QueueAccept

\* A rejected frame empties its slot.
LEMMA QueueRejected == ASSUME IInv, SubmitRejected PROVE Queue!Skip
<1> USE DEF IInv
<1>1. /\ NFc > 1 /\ ~Ready /\ Idle(next) /\ PopSlot(next) /\ out = None
      /\ outDelayed' = [outDelayed EXCEPT ![next] = None]
      /\ UNCHANGED <<sent, pic, status, outputs, uncopied>>
  BY DEF SubmitRejected, Parsing, Ready, ghost
<1>2. out' = IF ~retval[next] /\ Shows(outDelayed[next]) THEN outDelayed[next] ELSE None
  BY <1>1 DEF PopSlot
<1>3. \E q \in Queue!Skipped : Waiting' = q \cup ({None} \ {None})
  BY <1>1, <1>2, SlotLeft
<1>4. \A u \in UnitIds : Verdict(u)' = Verdict(u)
  BY <1>1, VerdictSame
<1>5. [u \in UnitIds |-> Verdict(u)]' = [u \in UnitIds |-> Verdict(u)]
  BY <1>4
<1> QED BY <1>1, <1>3, <1>5 DEF Queue!Skip

\* One frame context: the unit joins an empty queue, decided at once.
LEMMA QueueSingle ==
  ASSUME IInv, DecodeSingle \/ DecodeSingleFails \/ ShowExistingSingle
  PROVE  \E u \in UnitIds : Queue!Accept(u)
<1> USE DEF IInv
<1> DEFINE c == Current
<1>1. NFc = 1 /\ ~Ready /\ in0 # 0 /\ UNCHANGED <<sent, outDelayed, outputs, uncopied>>
  BY DEF DecodeSingle, DecodeSingleFails, ShowExistingSingle, Parsing, ring
<1>2. c \in UnitIds /\ c # None /\ out = None
  BY <1>1, CurrentType DEF Ready, UnitIds, None
<1>3. Waiting = {} /\ Waiting' = {out'} \ {None}
  BY <1>1, <1>2, SingleIsIdle DEF Waiting
<1>4. {} \in Queue!Skipped
  BY <1>3 DEF Queue!Skipped
<1>5. \A u \in UnitIds \ {c} : Verdict(u)' = Verdict(u)
  <2>1. \A u \in UnitIds \ {c} : pic'[u] = pic[u] /\ status'[u] = status[u]
    BY <1>2 DEF DecodeSingle, DecodeSingleFails, ShowExistingSingle, TypeOK, GhostTypes
  <2>2. ASSUME NEW u \in UnitIds, pic[u] # None PROVE pic[u] \in UnitIds \ {c}
    <3>1. pic[u] \in UnitIds /\ pic[pic[u]] # None
      BY <2>2, OlderThanCurrent DEF PicsInv
    <3> QED BY <1>2, <3>1, OlderThanCurrent DEF UnitIds
  <2> QED BY <1>1, <2>1, <2>2, VerdictSame
<1>6. [u \in UnitIds |-> Verdict(u)]'[c] =
        IF pic'[c] = None THEN "none"
        ELSE IF c = None \/ sent'[c] = "hidden" \/ status'[pic'[c]] \in {"failed", "flushed"} THEN "skip"
        ELSE IF status'[pic'[c]] = "ok" THEN "show"
        ELSE "pending"
  BY <1>2 DEF Verdict, Visible
<1>7. CASE DecodeSingle
  <2>1. /\ pic'[c] = c /\ status'[c] = "ok" /\ out' = IF sent[c] = "shown" THEN c ELSE None
        /\ sent[c] \in {"shown", "hidden"}
    BY <1>2, <1>7 DEF DecodeSingle, Parsing, TypeOK, GhostTypes
  <2>2. PICK v \in {"pending", "show", "skip"} : v = IF sent[c] = "shown" THEN "show" ELSE "skip"
    OBVIOUS
  <2>3. [u \in UnitIds |-> Verdict(u)]'[c] = v
    BY <1>1, <1>2, <1>6, <2>1, <2>2
  <2>4. Waiting' = {} \cup {c} \/ (v = "skip" /\ Waiting' = {})
    BY <1>2, <1>3, <2>1, <2>2
  <2> QED BY <1>1, <1>4, <1>5, <2>3, <2>4, QueueAccept
<1>8. CASE DecodeSingleFails
  <2>1. pic'[c] = c /\ status'[c] = "failed" /\ out' = None
    BY <1>2, <1>8 DEF DecodeSingleFails, TypeOK, GhostTypes
  <2>2. [u \in UnitIds |-> Verdict(u)]'[c] = "skip" /\ Waiting' = {}
    BY <1>2, <1>3, <1>6, <2>1
  <2> QED BY <1>1, <1>4, <1>5, <2>2, QueueAccept
<1>9. CASE ShowExistingSingle
  <2>1. /\ pic'[c] = ref /\ status' = status /\ out' = c /\ ref # None
        /\ sent[c] = "existing"
    BY <1>2, <1>9 DEF ShowExistingSingle, Parsing, TypeOK, GhostTypes
  <2>2. [u \in UnitIds |-> Verdict(u)]'[c] = "show" /\ Waiting' = {} \cup {c}
    BY <1>1, <1>2, <1>3, <1>6, <2>1 DEF RefInv
  <2> QED BY <1>1, <1>4, <1>5, <2>2, QueueAccept
<1> QED BY <1>7, <1>8, <1>9

\* state.out is the oldest that waits, and is returned, or an error for it.
LEMMA QueueReady ==
  ASSUME IInv, GetReady
  PROVE  out \in UnitIds /\ (Queue!Deliver(out) \/ Queue!Refuse(out))
<1> USE DEF IInv
<1>1. /\ out # None /\ out' = None
      /\ \/ outputs' = Append(outputs, out) /\ uncopied' = uncopied
         \/ outputs' = outputs /\ uncopied' = uncopied \cup {out}
      /\ UNCHANGED <<sent, outDelayed, pic, status>>
  BY DEF GetReady, Output, ring
<1>2. /\ out \in UnitIds /\ pic[out] # None /\ Verdict(out) = "show"
  BY <1>1, OlderThanCurrent DEF OutInv, Verdict
<1>3. \A s \in Slots : outDelayed[s] # None => out < outDelayed[s] /\ outDelayed[s] \in UnitIds
  BY <1>1, OlderThanCurrent DEF OutInv
<1>4. Queue!Oldest(out) /\ Waiting' = Waiting \ {out}
  BY <1>1, <1>2, <1>3 DEF Queue!Oldest, Waiting, UnitIds
<1>5. [u \in UnitIds |-> Verdict(u)]' = [u \in UnitIds |-> Verdict(u)]
  BY <1>1, VerdictSame
<1> QED BY <1>1, <1>2, <1>4, <1>5 DEF Queue!Deliver, Queue!Refuse

\* A slot that drain_picture empties is the oldest that waits.
LEMMA QueueDrain ==
  ASSUME IInv, DrainSlot
  PROVE  Queue!Skip \/ \E u \in UnitIds : Queue!Deliver(u) \/ Queue!Refuse(u)
<1> USE DEF IInv
<1> DEFINE o == outDelayed[next]
<1>1. /\ NFc > 1 /\ Idle(next) /\ out = None /\ out' = None
      /\ outDelayed' = [outDelayed EXCEPT ![next] = None]
      /\ \/ UNCHANGED <<outputs, uncopied>> /\ (retval[next] \/ ~Shows(o))
         \/ outputs' = Append(outputs, o) /\ uncopied' = uncopied /\ ~retval[next] /\ Shows(o)
         \/ outputs' = outputs /\ uncopied' = uncopied \cup {o} /\ ~retval[next] /\ Shows(o)
      /\ UNCHANGED <<sent, pic, status>>
  BY DEF DrainSlot, Output, OutInv
<1>2. [u \in UnitIds |-> Verdict(u)]' = [u \in UnitIds |-> Verdict(u)]
  BY <1>1, VerdictSame
<1>3. CASE UNCHANGED <<outputs, uncopied>> /\ (retval[next] \/ ~Shows(o))
  <2>1. \E q \in Queue!Skipped : Waiting' = q \cup ({None} \ {None})
    BY <1>1, <1>3, SlotLeft
  <2> QED BY <1>2, <1>3, <2>1 DEF Queue!Skip
<1>4. CASE /\ ~retval[next] /\ Shows(o)
           /\ \/ outputs' = Append(outputs, o) /\ uncopied' = uncopied
              \/ outputs' = outputs /\ uncopied' = uncopied \cup {o}
  <2>1. o # None /\ o \in UnitIds /\ pic[o] # None /\ Visible(o) /\ status[pic[o]] # "failed"
    BY <1>4, OlderThanCurrent DEF Shows, Visible, RingInv, TypeOK, QueueTypes
  <2>2. status[pic[o]] = "ok"
    BY <1>1, <2>1, NextIsOldest
  <2>3. Verdict(o) = "show"
    BY <2>1, <2>2 DEF Verdict
  <2>4. \A s \in Slots \ {next} : outDelayed[s] # None => o < outDelayed[s] /\ outDelayed[s] \in UnitIds
    BY <1>1, <2>1, NextIsOldest, OlderThanCurrent
  <2>5. Queue!Oldest(o)
    BY <1>1, <2>1, <2>4 DEF Queue!Oldest, Waiting, UnitIds, TypeOK, QueueTypes
  <2>6. Waiting' = Waiting \ {o}
    BY <1>1, <2>1, <2>4 DEF Waiting, UnitIds, TypeOK, QueueTypes
  <2> QED BY <1>2, <1>4, <2>1, <2>3, <2>5, <2>6 DEF Queue!Deliver, Queue!Refuse
<1> QED BY <1>1, <1>3, <1>4

\* A flush empties the queue.
LEMMA QueueFlush == ASSUME IInv, Flush PROVE Queue!Flush
<1> USE DEF IInv
<1> DEFINE vd == [u \in UnitIds |-> Verdict(u)]
<1>1. /\ out' = None /\ \A s \in Slots : outDelayed'[s] = None
      /\ \A u \in UnitIds : status'[u] = IF u <= Len(sent) THEN "flushed" ELSE "none"
      /\ UNCHANGED <<sent, pic, outputs, uncopied>>
  BY DEF Flush
<1>2. Waiting' = {}
  BY <1>1 DEF Waiting
<1>3. ASSUME NEW u \in UnitIds PROVE Verdict(u)' = IF Verdict(u) = "none" THEN "none" ELSE "skip"
  <2>1. pic[u] # None => pic[u] \in UnitIds /\ pic[u] <= Len(sent)
    BY OlderThanCurrent, CurrentType DEF PicsInv, UnitIds
  <2> QED BY <1>1, <2>1 DEF Verdict
<1>4. vd' = [u \in UnitIds |-> IF vd[u] = "none" THEN "none" ELSE "skip"]
  BY <1>3
<1> QED BY <1>1, <1>2, <1>4 DEF Queue!Flush

\* Every step of the decoder is a step of the queue, or is not seen in it.
LEMMA QueueStep == IInv /\ [Next]_vars => [Queue!Next]_(Queue!vars)
<1> SUFFICES ASSUME IInv, [Next]_vars PROVE Queue!Next \/ UNCHANGED Queue!vars
  OBVIOUS
<1> USE DEF Queue!Next
<1>1. CASE SubmitFrame \/ ShowExisting
  BY <1>1, QueueSubmit
<1>2. CASE SubmitRejected
  BY <1>2, QueueRejected
<1>3. CASE DecodeSingle \/ DecodeSingleFails \/ ShowExistingSingle
  BY <1>3, QueueSingle
<1>4. CASE GetReady
  BY <1>4, QueueReady
<1>5. CASE DrainSlot
  BY <1>5, QueueDrain
<1>6. CASE Flush
  BY <1>6, QueueFlush
<1>7. CASE \E w \in Slots : Decoded(w)
  BY <1>7, QueueDecoded
<1>8. CASE SendPacket
  <2>1. UNCHANGED <<out, outDelayed, pic, status, outputs, uncopied>> /\ in0 = 0
    BY <1>8 DEF SendPacket, ring, ghost
  <2>2. ASSUME NEW u \in UnitIds, pic[u] # None PROVE sent'[u] = sent[u]
    <3>1. u \in 1 .. Len(sent)
      BY <2>1, <2>2, OlderThanCurrent, CurrentType DEF IInv, Current, UnitIds
    <3> PICK n \in 1 .. MaxPacket : \E p \in [1 .. n -> Kinds] : sent' = sent \o p
      BY <1>8 DEF SendPacket
    <3> PICK p \in [1 .. n -> Kinds] : sent' = sent \o p
      OBVIOUS
    <3>2. n \in Nat /\ sent \in Seq(Kinds)
      BY DEF IInv, TypeOK, InputTypes
    <3> QED BY <3>1, <3>2, SentGrows
  <2> QED BY <2>1, <2>2, QueueStutter
<1>9. CASE \/ Send \/ Get \/ SendDone \/ GetError \/ GetDrain \/ GetAgain
           \/ ParseOther \/ ParseMalformed \/ DrainStop \/ DrainAgain \/ RejectSingle
           \/ UNCHANGED vars
  <2>1. UNCHANGED <<sent, out, outDelayed, pic, status, outputs, uncopied>>
    BY <1>9 DEF Send, Get, SendDone, GetError, GetDrain, GetAgain, ParseOther, ParseMalformed,
       DrainStop, DrainAgain, RejectSingle, Parsing, Ready, ring, ghost, vars
  <2> QED BY <2>1, QueueStutter
<1> QED
  BY <1>1, <1>2, <1>3, <1>4, <1>5, <1>6, <1>7, <1>8, <1>9 DEF Next, Call, Step

\* The decoder with any number of frame contexts implements the queue: what
\* a client sees never depends on the order in which the workers finish.
THEOREM Implements == Spec => QueueSpec
BY QueueInit, QueueStep, Invariance, PTL DEF Spec, QueueSpec, Queue!Spec
============================================================================
