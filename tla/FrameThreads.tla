---------------------------- MODULE FrameThreads ----------------------------
(***************************************************************************)
(* The frame queue of the decoder (rusty_av1d): what dav1d_send_data,      *)
(* dav1d_get_picture and dav1d_flush do to the ring of frame contexts and  *)
(* to the one output picture, while the workers finish the frames of the   *)
(* ring in any order.                                                      *)
(*                                                                         *)
(* Input is a stream of units, numbered as they are sent; a unit stands    *)
(* for the OBUs up to the one that completes a frame:                      *)
(*   "shown", "hidden"  a frame with show_frame 1 or 0                     *)
(*   "existing"         a header with show_existing_frame                  *)
(*   "rejected"         a frame that rav1d_submit_frame gives to on_error, *)
(*                      in one OBU_FRAME                                   *)
(*   "rejectedTiles"    the same with the tiles in OBUs of their own       *)
(*   "malformed"        an OBU that parse_obus refuses before that         *)
(*   "other"            OBUs that complete no frame                        *)
(* A picture is named by the unit that made it.  One reference slot stands *)
(* for the eight.  Spatial layers are not in use (max_spatial_id = 0),     *)
(* output_invisible_frames and strict_std_compliance are off, and a client *)
(* does not send again a packet that was refused with an error.            *)
(***************************************************************************)
EXTENDS Integers, Sequences, FiniteSets

CONSTANTS
  NFc,        \* number of frame contexts, c.fc.len()
  Kinds,      \* the kinds of units that are sent
  MaxUnits,   \* bound: units sent
  MaxPacket,  \* bound: units in one packet
  MaxFlushes, \* bound: calls of dav1d_flush
  MaxCopies   \* bound: copies for film grain that cannot be allocated

ASSUME NFcAssumption == NFc \in Nat \ {0}
ASSUME KindsAssumption ==
  Kinds \subseteq {"shown", "hidden", "existing", "rejected", "rejectedTiles",
                   "malformed", "other"}
ASSUME MaxAssumption ==
  MaxUnits \in Nat /\ MaxPacket \in Nat /\ MaxFlushes \in Nat /\ MaxCopies \in Nat

Slots == 0 .. NFc - 1
UnitIds == 1 .. MaxUnits
None == 0                   \* no picture, no error
Pics == {None} \cup UnitIds

VARIABLES
  sent,         \* kinds of the units sent so far
  in0,          \* state.in_0: how many of the last units are not parsed yet
  refused,      \* the first unit of in_0 has failed once and was put back
  out,          \* state.out
  cachedError,  \* state.cached_error: the unit whose error it is
  cachedProps,  \* state.cached_error_props: the unit whose packet they name
  drain,        \* state.drain
  ref,          \* state.refs[..].p: the picture later frames can show
  next,         \* state.frame_thread.next
  first,        \* task_thread.first: the slot where the search of the workers begins
  outDelayed,   \* frame_thread.out_delayed, by slot: the unit queued there
  working,      \* the unit each slot decodes: not finished
  error,        \* fc.task_thread.error # 0, outside a frame's decoding
  retval,       \* fc.task_thread.retval is an error
  pc,           \* where the API call is
  call,         \* which call: "send", "get"
  drainCall,    \* rav1d_get_picture's local drain
  left,         \* drain_picture: iterations left
  drained,      \* drain_picture's local drained
  result,       \* of the last call: [kind, unit]
  flushes,      \* flushes still allowed
  pic,          \* ghost: the picture a unit shows
  status,       \* ghost: what became of each picture
  outputs,      \* ghost: the units returned by dav1d_get_picture, in order
  uncopied,     \* ghost: the units whose copy for film grain could not be allocated
  ordered       \* ghost: the frames in progress have always been InOrder

input == <<in0, refused>>
cached == <<cachedError, cachedProps>>
ring == <<next, first, outDelayed, working, error, retval>>
drainVars == <<left, drained>>
ghost == <<pic, status, outputs, uncopied, ordered>>
vars == <<sent, input, out, cached, drain, ref, ring, pc, call, drainCall, drainVars,
          result, flushes, ghost>>

Succ(s) == IF s + 1 = NFc THEN 0 ELSE s + 1    \* (s + 1) % c.fc.len()
Idle(s) == working[s] = None
Held(s) == outDelayed[s] # None \/ error[s]
Outcome(k, u) == [kind |-> k, unit |-> u]

\* The unit that parse_obus is about to complete.
Current == Len(sent) - in0 + 1

Init ==
  /\ sent = <<>>
  /\ in0 = 0 /\ refused = FALSE
  /\ out = None /\ cachedError = None /\ cachedProps = None
  /\ drain = FALSE
  /\ ref = None
  /\ next = 0 /\ first = 0
  /\ outDelayed = [s \in Slots |-> None]
  /\ working = [s \in Slots |-> None]
  /\ error = [s \in Slots |-> FALSE]
  /\ retval = [s \in Slots |-> FALSE]
  /\ pc = "idle" /\ call = "get" /\ drainCall = FALSE
  /\ left = 0 /\ drained = FALSE
  /\ result = Outcome("none", None)
  /\ flushes = MaxFlushes
  /\ pic = [u \in UnitIds |-> None]
  /\ status = [u \in UnitIds |-> "none"]
  /\ outputs = <<>> /\ uncopied = {} /\ ordered = TRUE

----------------------------------------------------------------------------
(* The workers *)

\* Mutant: a frame that failed is left without being finished.
DecodedAborted(s) ==
  /\ ~Idle(s) /\ ~retval[s]
  /\ \E ok \in BOOLEAN :
       /\ status' = [status EXCEPT ![working[s]] = IF ok THEN "ok" ELSE "failed"]
       /\ retval' = [retval EXCEPT ![s] = ~ok]
       /\ working' = [working EXCEPT ![s] = IF ok THEN None ELSE @]
  /\ error' = [error EXCEPT ![s] = FALSE]
  /\ UNCHANGED <<sent, input, out, cached, drain, ref, next, first, outDelayed, pc, call,
                 drainCall, drainVars, result, flushes, pic, outputs, uncopied, ordered>>

\* rav1d_decode_frame_exit, when the last task of the slot's frame is done or
\* one of them failed; sr_cur has data, so error is cleared.
Decoded(s) ==
  /\ ~Idle(s)
  /\ \E ok \in BOOLEAN :
       /\ status' = [status EXCEPT ![working[s]] = IF ok THEN "ok" ELSE "failed"]
       /\ retval' = [retval EXCEPT ![s] = ~ok]
  /\ working' = [working EXCEPT ![s] = None]
  /\ error' = [error EXCEPT ![s] = FALSE]
  /\ UNCHANGED <<sent, input, out, cached, drain, ref, next, first, outDelayed, pc, call,
                 drainCall, drainVars, result, flushes, pic, outputs, uncopied, ordered>>

----------------------------------------------------------------------------
(* Calls and returns *)

Return(k, u) ==
  /\ pc' = "idle"
  /\ result' = Outcome(k, u)

\* Mutant: a picture that is ready does not stop the parsing.
ReadyErrorOnly == cachedError # None

\* output_picture_ready, without spatial layers.
Ready == cachedError # None \/ out # None

\* rav1d_send_data while the last packet is not parsed to its end.
Send ==
  /\ pc = "idle" /\ in0 # 0
  /\ drain' = FALSE
  /\ Return("again", None)
  /\ call' = "send"
  /\ UNCHANGED <<sent, input, out, cached, ref, ring, drainCall, drainVars, flushes,
                 ghost>>

\* rav1d_send_data up to its call of gen_picture.
SendPacket ==
  /\ pc = "idle" /\ in0 = 0
  /\ \E n \in 1 .. MaxPacket :
       /\ Len(sent) + n <= MaxUnits
       /\ \E p \in [1 .. n -> Kinds] : sent' = sent \o p
       /\ in0' = n
  /\ drain' = FALSE
  /\ pc' = "gen" /\ call' = "send"
  /\ UNCHANGED <<refused, out, cached, ref, ring, drainCall, drainVars, result,
                 flushes, ghost>>

\* Mutant: the call does not note that the next one may drain.
GetForgets ==
  /\ pc = "idle"
  /\ drainCall' = drain
  /\ pc' = "gen" /\ call' = "get"
  /\ UNCHANGED <<sent, input, out, cached, drain, ref, ring, drainVars, result, flushes,
                 ghost>>

\* rav1d_get_picture up to its call of gen_picture.
Get ==
  /\ pc = "idle"
  /\ drainCall' = drain
  /\ drain' = TRUE
  /\ pc' = "gen" /\ call' = "get"
  /\ UNCHANGED <<sent, input, out, cached, ref, ring, drainVars, result, flushes, ghost>>

\* gen_picture has returned without an error: rav1d_send_data is done...
SendDone ==
  /\ pc = "gen" /\ call = "send"
  /\ Ready \/ in0 = 0
  /\ Return("ok", None)
  /\ UNCHANGED <<sent, input, out, cached, drain, ref, ring, call, drainCall, drainVars,
                 flushes, ghost>>

\* ... and rav1d_get_picture reports a cached error,
GetError ==
  /\ pc = "gen" /\ call = "get" /\ cachedError # None
  /\ Return("error", cachedError)
  /\ cachedError' = None
  /\ UNCHANGED <<sent, input, out, cachedProps, drain, ref, ring, call, drainCall,
                 drainVars, flushes, ghost>>

\* output_image: the picture, or, when its copy for film grain cannot be allocated,
\* an error; it is taken from state.out either way.
Output(u) ==
  /\ out' = None
  /\ \/ /\ Return("picture", u)
        /\ outputs' = Append(outputs, u)
        /\ UNCHANGED uncopied
     \/ /\ Cardinality(uncopied) < MaxCopies
        /\ Return("error", u)
        /\ uncopied' = uncopied \cup {u}
        /\ UNCHANGED outputs

\* or returns the picture that is ready,
GetReady ==
  /\ pc = "gen" /\ call = "get" /\ cachedError = None /\ out # None
  /\ Output(out)
  /\ UNCHANGED <<sent, input, cached, drain, ref, ring, call, drainCall, drainVars,
                 flushes, pic, status, ordered>>

\* or drains the ring if it is the second call in a row,
GetDrain ==
  /\ pc = "gen" /\ call = "get" /\ ~Ready /\ in0 = 0
  /\ NFc > 1 /\ drainCall
  /\ pc' = "drain" /\ left' = NFc /\ drained' = FALSE
  /\ UNCHANGED <<sent, input, out, cached, drain, ref, ring, call, drainCall, result,
                 flushes, ghost>>

\* or asks for more data.
GetAgain ==
  /\ pc = "gen" /\ call = "get" /\ ~Ready /\ in0 = 0
  /\ ~(NFc > 1 /\ drainCall)
  /\ Return("again", None)
  /\ UNCHANGED <<sent, input, out, cached, drain, ref, ring, call, drainCall, drainVars,
                 flushes, ghost>>

----------------------------------------------------------------------------
(* The ring *)

\* Only a frame that is visible and decoded without error reaches state.out.
Visible(u) == u # None /\ sent[u] # "hidden"
Shows(u) == Visible(u) /\ status[pic[u]] # "failed"

\* task_thread.first moves on when a slot is given up that holds something.
FirstAfter(s) == IF Held(s) THEN Succ(first) ELSE first

\* The frames in progress lie, from first on, in the order in which they were sent:
\* the order in which the workers search them for tasks.  first does not pass the
\* oldest either: this is KeepOrder of TaskQueue.
Ahead(s) == IF s < first THEN s + NFc ELSE s
InOrder ==
  \A s, t \in Slots : ~Idle(s) /\ ~Idle(t) /\ working[s] < working[t] => Ahead(s) < Ahead(t)
KeepOrder == ordered' = (ordered /\ InOrder' /\ (Held(next) => Idle(first)))

\* Mutant: the error of the slot's frame is cleared and not cached.
PopSlotSilently(s) ==
  /\ next' = Succ(s) /\ first' = FirstAfter(s)
  /\ retval' = [retval EXCEPT ![s] = FALSE]
  /\ UNCHANGED cachedError
  /\ out' = IF ~retval[s] /\ Shows(outDelayed[s]) THEN outDelayed[s] ELSE out

\* rav1d_submit_frame and parse_obus, when the slot's previous frame is done:
\* its error is cached, or its picture becomes the output.
PopSlot(s) ==
  /\ next' = Succ(s) /\ first' = FirstAfter(s)
  /\ retval' = [retval EXCEPT ![s] = FALSE]
  /\ cachedError' = IF retval[s] THEN outDelayed[s] ELSE cachedError
  /\ out' = IF ~retval[s] /\ Shows(outDelayed[s]) THEN outDelayed[s] ELSE out

\* The loop of gen_picture: the kind of the unit that it parses next.
Parsing(kinds) ==
  /\ pc = "gen" /\ ~Ready /\ in0 # 0
  /\ sent[Current] \in kinds

\* A unit parsed without error leaves the input.
Consume ==
  /\ in0' = in0 - 1 /\ refused' = FALSE
  /\ UNCHANGED <<pc, result>>

\* rav1d_parse_obus and gen_picture after an error in the unit: its packet is
\* noted; if something can be output now the input is put back as it was, and
\* the call goes on; otherwise the input is dropped and the call fails.
Fail(u, ready) ==
  /\ cachedProps' = u
  /\ refused' = ready
  /\ \/ ready /\ UNCHANGED <<in0, pc, result>>
     \/ ~ready /\ in0' = 0 /\ Return("error", u)

\* OBUs that complete no frame.
ParseOther ==
  /\ Parsing({"other"})
  /\ Consume
  /\ UNCHANGED <<sent, out, cached, drain, ref, ring, call, drainCall, drainVars,
                 flushes, ghost>>

\* OBUs that cannot be parsed: a reference that is not there, or tiles whose
\* header was taken by the frame that was rejected with them.
ParseMalformed ==
  /\ \/ Parsing({"malformed"})
     \/ (Parsing({"existing"}) /\ ref = None)
     \/ (Parsing({"rejectedTiles"}) /\ refused)
  /\ Fail(Current, FALSE)
  /\ UNCHANGED <<sent, out, cachedError, drain, ref, ring, call, drainCall, drainVars,
                 flushes, ghost>>

\* rav1d_submit_frame, n_fc > 1: the slot is awaited, emptied, and the new
\* frame queued and started; it may become a reference.
SubmitFrame ==
  LET u == Current  s == next
  IN /\ NFc > 1
     /\ Parsing({"shown", "hidden"})
     /\ Idle(s)
     /\ PopSlot(s)
     /\ cachedProps' = IF retval[s] THEN outDelayed[s] ELSE cachedProps
     /\ outDelayed' = [outDelayed EXCEPT ![s] = u]
     /\ working' = [working EXCEPT ![s] = u]
     /\ error' = [error EXCEPT ![s] = FALSE]
     /\ ref' \in {ref, u}
     /\ pic' = [pic EXCEPT ![u] = u]
     /\ status' = [status EXCEPT ![u] = "decoding"]
     /\ Consume
     /\ UNCHANGED <<sent, drain, call, drainCall, drainVars, flushes, outputs, uncopied>>
     /\ KeepOrder

\* The same with a frame that goes to on_error, after the slot was emptied.
SubmitRejected ==
  LET u == Current  s == next
  IN /\ NFc > 1
     /\ Parsing({"rejected"}) \/ (Parsing({"rejectedTiles"}) /\ ~refused)
     /\ Idle(s)
     /\ PopSlot(s)
     /\ outDelayed' = [outDelayed EXCEPT ![s] = None]
     /\ error' = [error EXCEPT ![s] = TRUE]
     /\ Fail(u, cachedError' # None \/ out' # None)
     /\ UNCHANGED <<sent, drain, ref, working, call, drainCall, drainVars, flushes, pic,
                    status, outputs, uncopied>>
     /\ KeepOrder

\* Mutant: the picture is output at once, as with one frame context.
ShowExistingAtOnce ==
  /\ NFc > 1
  /\ Parsing({"existing"}) /\ ref # None
  /\ out' = Current
  /\ pic' = [pic EXCEPT ![Current] = ref]
  /\ Consume
  /\ UNCHANGED <<sent, cached, drain, ref, ring, call, drainCall, drainVars, flushes,
                 status, outputs, uncopied, ordered>>

\* Mutant: the slot is not awaited, as it has no frame to decode.
ShowExistingEarly ==
  LET u == Current  s == next
  IN /\ NFc > 1
     /\ Parsing({"existing"}) /\ ref # None
     /\ PopSlot(s)
     /\ cachedProps' = IF retval[s] THEN outDelayed[s] ELSE cachedProps
     /\ outDelayed' = [outDelayed EXCEPT ![s] = u]
     /\ pic' = [pic EXCEPT ![u] = ref]
     /\ Consume
     /\ UNCHANGED <<sent, drain, ref, working, error, call, drainCall, drainVars,
                    flushes, status, outputs, uncopied>>
     /\ KeepOrder

\* parse_obus on show_existing_frame: the reference is queued like a frame,
\* though the slot's context has nothing to decode.
ShowExisting ==
  LET u == Current  s == next
  IN /\ NFc > 1
     /\ Parsing({"existing"}) /\ ref # None
     /\ Idle(s)
     /\ PopSlot(s)
     /\ cachedProps' = IF retval[s] THEN outDelayed[s] ELSE cachedProps
     /\ outDelayed' = [outDelayed EXCEPT ![s] = u]
     /\ pic' = [pic EXCEPT ![u] = ref]
     /\ Consume
     /\ UNCHANGED <<sent, drain, ref, working, error, call, drainCall, drainVars,
                    flushes, status, outputs, uncopied>>
     /\ KeepOrder

\* One iteration of drain_picture, when the slot is done: it holds nothing and
\* one before it did, so the ring is taken to be empty...
DrainStop ==
  /\ pc = "drain" /\ left > 0 /\ Idle(next)
  /\ ~Held(next) /\ drained
  /\ left' = 0
  /\ UNCHANGED <<sent, input, out, cached, drain, ref, ring, pc, call, drainCall,
                 drained, result, flushes, ghost>>

\* Mutant: the slot's frame is not awaited.
DrainSlotEarly ==
  LET s == next  u == outDelayed[next]
  IN /\ pc = "drain" /\ left > 0
     /\ Held(s) \/ ~drained
     /\ drained' = (drained \/ Held(s))
     /\ next' = Succ(s) /\ first' = FirstAfter(s)
     /\ outDelayed' = [outDelayed EXCEPT ![s] = None]
     /\ left' = left - 1
     /\ ~retval[s] /\ Shows(u) /\ Output(u)
     /\ UNCHANGED <<sent, input, cached, drain, ref, working, error, retval, call,
                    drainCall, flushes, pic, status>>
     /\ KeepOrder

\* ... or it is emptied: its error returned, its picture output, or neither.
DrainSlot ==
  LET s == next  u == outDelayed[next]
  IN /\ pc = "drain" /\ left > 0 /\ Idle(s)
     /\ Held(s) \/ ~drained
     /\ drained' = (drained \/ Held(s))
     /\ next' = Succ(s) /\ first' = FirstAfter(s)
     /\ retval' = [retval EXCEPT ![s] = FALSE]
     /\ outDelayed' = [outDelayed EXCEPT ![s] = None]
     /\ left' = left - 1
     /\ \/ /\ retval[s]
           /\ cachedProps' = u
           /\ Return("error", u)
           /\ UNCHANGED <<out, outputs, uncopied>>
        \/ /\ ~retval[s] /\ Shows(u)
           /\ Output(u)
           /\ UNCHANGED cachedProps
        \/ /\ ~retval[s] /\ ~Shows(u)
           /\ UNCHANGED <<out, outputs, uncopied, cachedProps, pc, result>>
     /\ UNCHANGED <<sent, input, cachedError, drain, ref, working, error, call,
                    drainCall, flushes, pic, status>>
     /\ KeepOrder

DrainAgain ==
  /\ pc = "drain" /\ left = 0
  /\ Return("again", None)
  /\ UNCHANGED <<sent, input, out, cached, drain, ref, ring, call, drainCall, drainVars,
                 flushes, ghost>>

----------------------------------------------------------------------------
(* n_fc = 1: rav1d_decode_frame decodes the frame inside the call *)

\* Mutant: hidden frames are output too.
DecodeSingleShowsAll ==
  LET u == Current
  IN /\ NFc = 1
     /\ Parsing({"shown", "hidden"})
     /\ out' = u
     /\ ref' \in {ref, u}
     /\ pic' = [pic EXCEPT ![u] = u]
     /\ status' = [status EXCEPT ![u] = "ok"]
     /\ error' = [error EXCEPT ![0] = FALSE]
     /\ Consume
     /\ UNCHANGED <<sent, cached, drain, next, first, outDelayed, working, retval, call,
                    drainCall, drainVars, flushes, outputs, uncopied, ordered>>

DecodeSingle ==
  LET u == Current
  IN /\ NFc = 1
     /\ Parsing({"shown", "hidden"})
     /\ out' = IF sent[u] = "shown" THEN u ELSE out
     /\ ref' \in {ref, u}
     /\ pic' = [pic EXCEPT ![u] = u]
     /\ status' = [status EXCEPT ![u] = "ok"]
     /\ error' = [error EXCEPT ![0] = FALSE]
     /\ Consume
     /\ UNCHANGED <<sent, cached, drain, next, first, outDelayed, working, retval, call,
                    drainCall, drainVars, flushes, outputs, uncopied, ordered>>

\* The decoding fails: rav1d_decode_frame_exit has taken f.frame_hdr away when
\* on_error asks for its refresh_context, and unwrap() panics.
DecodeSingleFails ==
  LET u == Current
  IN /\ NFc = 1
     /\ Parsing({"shown", "hidden"})
     /\ out' = None
     /\ ref' \in {ref, None}
     /\ pic' = [pic EXCEPT ![u] = u]
     /\ status' = [status EXCEPT ![u] = "failed"]
     /\ error' = [error EXCEPT ![0] = TRUE]
     /\ retval' = [retval EXCEPT ![0] = TRUE]
     /\ pc' = "panic" /\ in0' = 0
     /\ UNCHANGED <<sent, refused, cached, drain, next, first, outDelayed, working, call,
                    drainCall, drainVars, result, flushes, outputs, uncopied, ordered>>

RejectSingle ==
  /\ NFc = 1
  /\ Parsing({"rejected", "rejectedTiles"})
  /\ out' = None
  /\ error' = [error EXCEPT ![0] = TRUE]
  /\ Fail(Current, FALSE)
  /\ UNCHANGED <<sent, cachedError, drain, ref, next, first, outDelayed, working, retval,
                 call, drainCall, drainVars, flushes, ghost>>

ShowExistingSingle ==
  /\ NFc = 1
  /\ Parsing({"existing"}) /\ ref # None
  /\ out' = Current
  /\ pic' = [pic EXCEPT ![Current] = ref]
  /\ Consume
  /\ UNCHANGED <<sent, cached, drain, ref, ring, call, drainCall, drainVars, flushes,
                 status, outputs, uncopied, ordered>>

----------------------------------------------------------------------------
\* rav1d_flush: the workers are parked, every frame is abandoned through
\* rav1d_decode_frame_exit, and the state starts again but for the ring.
Flush ==
  /\ pc = "idle" /\ flushes > 0
  /\ flushes' = flushes - 1
  /\ in0' = 0 /\ refused' = FALSE
  /\ out' = None /\ cachedError' = None /\ cachedProps' = None
  /\ drain' = FALSE /\ ref' = None
  /\ next' = 0 /\ first' = 0
  /\ outDelayed' = [s \in Slots |-> None]
  /\ working' = [s \in Slots |-> None]
  /\ error' = [s \in Slots |-> error[s] /\ Idle(s)]
  /\ retval' = [s \in Slots |-> FALSE]
  /\ status' = [u \in UnitIds |-> IF u <= Len(sent) THEN "flushed" ELSE "none"]
  /\ result' = Outcome("ok", None)
  /\ UNCHANGED <<sent, pc, call, drainCall, drainVars, pic, outputs, uncopied, ordered>>

Call == Send \/ SendPacket \/ Get \/ Flush

Step ==
  \/ SendDone \/ GetError \/ GetReady \/ GetDrain \/ GetAgain
  \/ ParseOther \/ ParseMalformed
  \/ SubmitFrame \/ SubmitRejected \/ ShowExisting
  \/ DrainStop \/ DrainSlot \/ DrainAgain
  \/ DecodeSingle \/ DecodeSingleFails \/ RejectSingle \/ ShowExistingSingle

Next == Call \/ Step \/ \E s \in Slots : Decoded(s)

Spec == Init /\ [][Next]_vars

\* Calls run to their end, the client keeps asking for pictures, and the workers
\* finish their frames as long as these lie in the order of the search.  A client
\* can bring them out of it, and then all workers may sleep (TaskQueue).
FairSpec ==
  /\ Spec
  /\ WF_vars(Step)
  /\ SF_vars(Get)
  /\ \A s \in Slots : WF_vars(ordered /\ Decoded(s))

----------------------------------------------------------------------------
(* Properties *)

InputTypes ==
  /\ sent \in Seq(Kinds) /\ Len(sent) <= MaxUnits
  /\ in0 \in 0 .. Len(sent) /\ refused \in BOOLEAN

QueueTypes ==
  /\ out \in Pics /\ cachedError \in Pics /\ cachedProps \in Pics /\ ref \in Pics
  /\ next \in Slots /\ first \in Slots
  /\ outDelayed \in [Slots -> Pics] /\ working \in [Slots -> Pics]
  /\ error \in [Slots -> BOOLEAN] /\ retval \in [Slots -> BOOLEAN]

CallTypes ==
  /\ pc \in {"idle", "gen", "drain", "panic"} /\ call \in {"send", "get"}
  /\ drain \in BOOLEAN /\ drainCall \in BOOLEAN /\ drained \in BOOLEAN
  /\ result \in [kind : {"none", "ok", "again", "error", "picture"}, unit : Pics]

CountTypes == left \in 0 .. NFc /\ flushes \in 0 .. MaxFlushes

GhostTypes ==
  /\ pic \in [UnitIds -> Pics]
  /\ status \in [UnitIds -> {"none", "decoding", "ok", "failed", "flushed"}]
  /\ outputs \in Seq(UnitIds) /\ uncopied \subseteq UnitIds /\ ordered \in BOOLEAN

TypeOK == InputTypes /\ QueueTypes /\ CallTypes /\ CountTypes /\ GhostTypes

\* Pictures leave in the order their frames were sent, each once, however
\* the workers finish them and wherever the ring stands.
OutputInOrder ==
  \A i, j \in 1 .. Len(outputs) : i < j => outputs[i] < outputs[j]

\* A picture is output only when its frame is completely decoded, and a
\* picture shown again through show_existing_frame too, although its slot of
\* the ring has no frame of its own to wait for.
OutputDecoded ==
  [][\A u \in UnitIds : outputs' = Append(outputs, u) => status[pic[u]] = "ok"]_vars

\* No visible frame that was decoded well is overwritten in state.out or
\* dropped from the ring: it waits there, or the client has it, or has got the
\* error of output_image, which could not copy it to apply film grain.
NothingLost ==
  \A u \in UnitIds :
    /\ u <= Len(sent) /\ Visible(u) /\ pic[u] # None
    /\ status[pic[u]] \in {"decoding", "ok"}
    => \/ u = out
       \/ \E s \in Slots : outDelayed[s] = u
       \/ u \in uncopied
       \/ \E i \in 1 .. Len(outputs) : outputs[i] = u

\* An error of a worker is never dropped: when it leaves its slot it is
\* returned or cached, and a cached one is returned before another is cached.
ErrorsKept ==
  [][flushes' = flushes =>
       /\ \A s \in Slots : retval[s] /\ ~retval'[s] =>
            outDelayed[s] # None /\
            (cachedError' = outDelayed[s] \/ result' = Outcome("error", outDelayed[s]))
       /\ cachedError \notin {None, cachedError'} => result' = Outcome("error", cachedError)]_vars

\* dav1d.h:169: an error during decoding is a negative return value.  So the
\* frame_hdr.as_ref().unwrap() of on_error finds the header.
NoPanic == pc # "panic"

\* dav1d.h:189: to drain buffered frames, dav1d_get_picture is called until it
\* returns EAGAIN.  So EAGAIN of a draining call means nothing is left.
DrainComplete ==
  [][pc = "drain" /\ pc' = "idle" /\ result'.kind = "again" =>
       \A s \in Slots : ~Shows(outDelayed[s])]_vars

\* A client that keeps calling dav1d_get_picture gets every visible frame
\* that was decoded, or an error for it, unless it has flushed, and as long as the
\* frames lie in the order in which the workers search them.
EverythingOut ==
  \A u \in UnitIds :
    (status[u] = "ok" /\ sent[u] = "shown") ~>
      (\/ status[u] = "flushed" \/ u \in uncopied \/ ~ordered
       \/ \E i \in 1 .. Len(outputs) : outputs[i] = u)

\* No call waits for ever on a frame, as long as the frames lie in that order.
CallsReturn == (pc # "idle") ~> (pc = "idle" \/ ~ordered)

----------------------------------------------------------------------------
(* The inductive invariant *)

\* How many slots the ring visits before s.
Pos(s) == IF next <= s THEN s - next ELSE s - next + NFc

\* Units not parsed yet have no picture; a unit shows itself or an older one.
PicsInv ==
  /\ \A u \in UnitIds : u >= Current => pic[u] = None /\ status[u] = "none"
  /\ \A u \in UnitIds : pic[u] # None =>
       pic[u] <= u /\ pic[pic[u]] = pic[u] /\ status[pic[u]] # "none"

\* Only what is in a slot is being decoded, and only there.
WorkInv ==
  /\ \A s \in Slots : ~Idle(s) =>
       /\ outDelayed[s] = working[s]
       /\ pic[working[s]] = working[s] /\ status[working[s]] = "decoding"
  /\ \A u \in UnitIds : status[u] = "decoding" => \E s \in Slots : working[s] = u

\* The ring is sorted from next on.
RingInv ==
  /\ \A s \in Slots : outDelayed[s] # None =>
       pic[outDelayed[s]] # None /\ status[pic[outDelayed[s]]] # "flushed"
  /\ \A s, t \in Slots :
       outDelayed[s] # None /\ outDelayed[t] # None /\ Pos(s) < Pos(t) =>
         outDelayed[s] < outDelayed[t]
  /\ NFc = 1 => outDelayed[0] = None

RetvalInv ==
  NFc > 1 => \A s \in Slots : retval[s] =>
    Idle(s) /\ outDelayed[s] # None /\ status[pic[outDelayed[s]]] = "failed"

\* The output picture is decoded and older than the ring.
OutInv ==
  /\ out # None => /\ pic[out] # None /\ Visible(out) /\ status[pic[out]] = "ok"
                   /\ \A s \in Slots : outDelayed[s] # None => out < outDelayed[s]
  /\ pc = "drain" => out = None /\ NFc > 1

RefInv ==
  ref # None => /\ pic[ref] = ref /\ status[ref] # "flushed"
                /\ NFc = 1 => status[ref] = "ok"

\* What the client has is older than what waits.
OutputsInv ==
  \A i \in 1 .. Len(outputs) :
    /\ pic[outputs[i]] # None
    /\ out # None => outputs[i] < out
    /\ \A s \in Slots : outDelayed[s] # None => outputs[i] < outDelayed[s]

IInv ==
  /\ TypeOK /\ PicsInv /\ WorkInv /\ RingInv /\ RetvalInv /\ OutInv /\ RefInv
  /\ OutputsInv /\ OutputInOrder /\ NothingLost

----------------------------------------------------------------------------
(* The queue that this implements *)

Verdict(u) ==
  IF pic[u] = None THEN "none"
  ELSE IF ~Visible(u) \/ status[pic[u]] \in {"failed", "flushed"} THEN "skip"
  ELSE IF status[pic[u]] = "ok" THEN "show"
  ELSE "pending"

Waiting == ({out} \cup {outDelayed[s] : s \in Slots}) \ {None}

Queue == INSTANCE OutputQueue WITH
  Units <- UnitIds, queue <- Waiting, verdict <- [u \in UnitIds |-> Verdict(u)]

\* Whatever the order in which the workers finish, the client sees a queue.
QueueSpec == Queue!Spec
============================================================================
