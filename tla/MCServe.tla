------------------------------ MODULE MCServe ------------------------------
(* Three connections that compete for one slot or two, and what one step of *)
(* theirs does inside: a forward_prefill, on the builds and with the calls  *)
(* that differ, and the draft's turns in a slot.                            *)
(* A behaviour exercises one of the three, and the others have done all     *)
(* they will do.                                                            *)
EXTENDS Serve, Forward, DraftRing, TLC

CONSTANTS c1, c2, c3
Three == c1 :> {[n |-> 5, budget |-> 2]} @@ c2 :> {[n |-> 5, budget |-> 0]}
         @@ c3 :> {[n |-> 1, budget |-> 1]}

\* Both cards with the whole build; the CPU build's cards; a router on the host; the
\* profiler with no block head; an arena that is too small.
Rig(cap, batched, router, prof, epilogue) ==
  [cap |-> cap, onCards |-> TRUE, batched |-> batched, router |-> router, prof |-> prof,
   epilogue |-> epilogue]
MCRigs == {Rig(2, TRUE, TRUE, FALSE, TRUE), Rig(2, FALSE, TRUE, FALSE, TRUE),
           Rig(3, TRUE, FALSE, FALSE, TRUE), Rig(3, TRUE, TRUE, TRUE, FALSE),
           Rig(1, TRUE, TRUE, FALSE, TRUE)}

\* A prompt that keeps two taps; a resumed one that fills the compressed cache; a
\* verify block; a prompt without its experts.
Call(from, n, keep, blk_, perPosition, routed) ==
  [from |-> from, n |-> n, keep |-> keep, blk |-> blk_, perPosition |-> perPosition,
   logits |-> ~perPosition, routed |-> routed]
MCPasses == {Call(0, 5, 2, TRUE, FALSE, TRUE), Call(3, 4, 0, TRUE, FALSE, TRUE),
             Call(3, 2, 0, TRUE, TRUE, TRUE), Call(0, 5, 0, FALSE, FALSE, FALSE)}

ServeDone ==
  /\ nSlots = 1 /\ draftOn = FALSE
  /\ pc = [t \in Conn |-> "done"] /\ slotBusy = {} /\ slotOf = [t \in Conn |-> 0]
  /\ mu = Nobody /\ sel = 0 /\ dev = [s \in Slots |-> Fresh]
  /\ st = [t \in Conn |-> StateInit] /\ hist = [t \in Conn |-> <<>>] /\ made = [t \in Conn |-> 0]
  /\ rq = [t \in Conn |-> CHOOSE q \in Asks[t] : TRUE]
  /\ goal = [t \in Conn |-> 0] /\ blk = [t \in Conn |-> NoBlock]
  /\ reply = [t \in Conn |-> "closed"] /\ pub = {} /\ clean = [attend |-> TRUE, pool |-> TRUE]

ForwardDone ==
  /\ rig = Rig(1, TRUE, TRUE, FALSE, TRUE) /\ pass = Call(0, 1, 0, FALSE, FALSE, FALSE)
  /\ fpc = "refused" /\ base = 0 /\ layer = 0 /\ seqPos = 0 /\ count = <<>> /\ emitted = <<>>
  /\ vis = <<>> /\ latched = FALSE /\ nowhere = <<>> /\ asked = FALSE
  /\ normOf = Never /\ selOf = [sel |-> Never, wt |-> Never] /\ nsel = 0
  /\ chosen = <<>> /\ handled = {} /\ block = <<>> /\ tapPlane = <<>> /\ heard = {} /\ hcHost = TRUE

DraftDone ==
  /\ keeps = FALSE /\ dpc = "ask" /\ turnNo = Turns
  /\ told = 0 /\ dpos = 0 /\ resumed = 0 /\ dgoal = 0
  /\ drows = <<>> /\ dtaps = <<>> /\ seed = Nothing /\ points = {} /\ heldTo = 0

PartsInit == \/ ServeInit /\ ForwardDone /\ DraftDone
             \/ ForwardInit /\ ServeDone /\ DraftDone
             \/ DraftInit /\ ServeDone /\ ForwardDone

PartsNext == \/ ServeNext /\ UNCHANGED <<forwardVars, draftVars>>
             \/ ForwardNext /\ UNCHANGED <<vars, draftVars>>
             \/ DraftNext /\ UNCHANGED <<vars, forwardVars>>

PartsSpec == /\ PartsInit /\ [][PartsNext]_<<vars, forwardVars, draftVars>>
             /\ \A t \in Conn : WF_vars(Thread(t))
=============================================================================
