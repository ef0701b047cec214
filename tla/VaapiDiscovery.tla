--------------------------- MODULE VaapiDiscovery ---------------------------
(***************************************************************************)
(* decoder(), backend() and available_codecs() (vaapi/mod.rs, lib.rs) as   *)
(* several threads call them: the two process-wide OnceLocks (CAPS in      *)
(* probe, RUNTIME in sys::runtime), the walk over the render nodes in      *)
(* VaDisplay::open, the capability queries, and the display a decoder      *)
(* keeps until it is dropped.                                              *)
(*                                                                         *)
(* A render node is as good as its state at the moment it is opened.  The  *)
(* environment may change it at any time (a device node that appears or is *)
(* taken away, permissions, a driver that refuses one more client), at     *)
(* most MaxChanges times; "Hardware does not change at runtime" (probe) is *)
(* what happens while changes = 0.                                         *)
(***************************************************************************)
EXTENDS Naturals, FiniteSets

CONSTANTS
  Thread,      \* threads that use the crate
  Nodes,       \* render nodes /dev/dri/renderD128.. are numbered 1..Nodes
  Driver,      \* the profiles the driver of each node decodes at VLD
  MaxChanges,  \* bound on the changes of nodes
  None

ASSUME DiscoveryAssumption ==
  /\ Nodes \in Nat \ {0}
  /\ Driver \in [1..Nodes -> SUBSET {"main", "main10", "av1"}]
  /\ MaxChanges \in Nat
  /\ None \notin Thread /\ None \notin BOOLEAN
  /\ None \notin {"hevc", "av1"} /\ None \notin 1..(Nodes + 1)
  /\ \A profiles \in SUBSET {"main", "main10", "av1"} : None # profiles

Node   == 1..Nodes
Codecs == {"hevc", "av1"}

(* What an attempt to use a node comes to: no openable device, no display, *)
(* a display that does not initialise, one whose profile queries fail, or  *)
(* a usable one.                                                           *)
Health == {"absent", "noDisplay", "broken", "mute", "ok"}

Calls == {[op |-> "decoder", codec |-> c] : c \in Codecs}
           \cup {[op |-> "available", codec |-> None]}

VARIABLES
  health,   \* state of each render node
  changes,  \* how often one has changed
  libva,    \* are libva.so.2 and libva-drm.so.2 loadable?
  runtime,  \* static RUNTIME: None until the first use, then found or not
  caps,     \* static CAPS: None until initialised, then a set of profiles
  prober,   \* the thread running CAPS' initialiser
  pc,       \* per thread: where it is
  call,     \* per thread: the current or last call
  minor,    \* per thread: the node VaDisplay::open tries
  fd,       \* per thread: the node it holds an open File of
  dpy,      \* per thread: the node it holds an initialised display on
  kept,     \* per thread: its decoder's codec, None without a decoder
  found,    \* what the running initialiser has found
  answers   \* history: the results of available_codecs() and decoder()

vars == <<health, changes, libva, runtime, caps, prober, pc, call, minor, fd, dpy,
          kept, found, answers>>

Init ==
  /\ health \in [Node -> Health] /\ libva \in BOOLEAN
  /\ runtime = None /\ caps = None /\ prober = None
  /\ pc = [t \in Thread |-> "idle"]
  /\ call = [t \in Thread |-> None]
  /\ minor = [t \in Thread |-> 1]
  /\ fd = [t \in Thread |-> None] /\ dpy = [t \in Thread |-> None]
  /\ kept = [t \in Thread |-> None]
  /\ found = {} /\ answers = {} /\ changes = 0

Goto(t, to) == pc' = [pc EXCEPT ![t] = to]

-----------------------------------------------------------------------------
(* The codecs a set of profiles stands for.                                *)
CodecsOf(profiles) ==
  (IF profiles \cap {"main", "main10"} # {} THEN {"hevc"} ELSE {})
    \cup (IF "av1" \in profiles THEN {"av1"} ELSE {})

(* backend() is Some exactly when available_codecs() is not empty.         *)
Answer(c, result) == [call |-> c, result |-> result]

(* Entry of decoder(c), available_codecs() or backend(): they all start    *)
(* with probe().  A thread that keeps a decoder drops it first.            *)
Enter(t, c) ==
  /\ pc[t] = "idle" /\ kept[t] = None
  /\ call' = [call EXCEPT ![t] = c]
  /\ Goto(t, "probe")
  /\ UNCHANGED <<health, changes, libva, runtime, caps, prober, minor, fd, dpy, kept,
                 found, answers>>

(* Mutant: the probe is not cached, every call runs it again.              *)
BecomeProber_Uncached(t) ==
  /\ pc[t] = "probe" /\ prober = None
  /\ prober' = t
  /\ Goto(t, "open")
  /\ UNCHANGED <<health, changes, libva, runtime, caps, call, minor, fd, dpy, kept,
                 found, answers>>

(* CAPS.get_or_init: one thread runs the initialiser, the others wait.     *)
BecomeProber(t) ==
  /\ pc[t] = "probe" /\ caps = None /\ prober = None
  /\ prober' = t
  /\ Goto(t, "open")
  /\ UNCHANGED <<health, changes, libva, runtime, caps, call, minor, fd, dpy, kept,
                 found, answers>>

(* Mutant: decoder() asks for the 8-bit HEVC profile only.                 *)
ReadCaps_MainOnly(t) ==
  /\ pc[t] = "probe" /\ caps # None
  /\ IF call[t].op = "available"
     THEN Goto(t, "idle") /\ answers' = answers \cup {Answer(call[t], CodecsOf(caps))}
     ELSE IF call[t].codec \in CodecsOf(caps \ {"main10"})
     THEN Goto(t, "open") /\ UNCHANGED answers
     ELSE Goto(t, "idle") /\ answers' = answers \cup {Answer(call[t], {})}
  /\ UNCHANGED <<health, changes, libva, runtime, caps, prober, call, minor, fd, dpy,
                 kept, found>>

(* available_codecs() and backend() answer from CAPS; decoder() goes on to *)
(* open a display when CAPS has a profile of its codec.                    *)
ReadCaps(t) ==
  /\ pc[t] = "probe" /\ caps # None
  /\ IF call[t].op = "available"
     THEN Goto(t, "idle") /\ answers' = answers \cup {Answer(call[t], CodecsOf(caps))}
     ELSE IF call[t].codec \in CodecsOf(caps)
     THEN Goto(t, "open") /\ UNCHANGED answers
     ELSE Goto(t, "idle") /\ answers' = answers \cup {Answer(call[t], {})}
  /\ UNCHANGED <<health, changes, libva, runtime, caps, prober, call, minor, fd, dpy,
                 kept, found>>

-----------------------------------------------------------------------------
(* VaDisplay::open                                                         *)

(* RUNTIME.get_or_init(Runtime::load): whether libva was loadable is found *)
(* out once and kept, and without it there is no display.                  *)
LoadRuntime(t) ==
  /\ pc[t] = "open"
  /\ runtime' = IF runtime = None THEN libva ELSE runtime
  /\ IF runtime'
     THEN Goto(t, "node") /\ minor' = [minor EXCEPT ![t] = 1]
     ELSE Goto(t, "failed") /\ UNCHANGED minor
  /\ UNCHANGED <<health, changes, libva, caps, prober, call, fd, dpy, kept,
                 found, answers>>

(* A node that cannot be opened is skipped.                                *)
OpenNode(t) ==
  /\ pc[t] = "node" /\ minor[t] <= Nodes
  /\ IF health[minor[t]] = "absent"
     THEN minor' = [minor EXCEPT ![t] = @ + 1] /\ UNCHANGED <<pc, fd>>
     ELSE /\ fd' = [fd EXCEPT ![t] = minor[t]]
          /\ Goto(t, "init")
          /\ UNCHANGED minor
  /\ UNCHANGED <<health, changes, libva, runtime, caps, prober, call, dpy, kept,
                 found, answers>>

(* Mutant: the File of a node without a display is kept while the next     *)
(* nodes are tried.                                                        *)
InitDisplay_KeepFile(t) ==
  /\ pc[t] = "init"
  /\ IF health[fd[t]] \in {"ok", "mute"}
     THEN /\ dpy' = [dpy EXCEPT ![t] = fd[t]]
          /\ Goto(t, IF prober = t THEN "query" ELSE "opened")
          /\ UNCHANGED minor
     ELSE /\ minor' = [minor EXCEPT ![t] = @ + 1]
          /\ Goto(t, "node")
          /\ UNCHANGED dpy
  /\ UNCHANGED <<health, changes, libva, runtime, caps, prober, call, fd, kept, found,
                 answers>>

(* vaGetDisplayDRM, then vaInitialize; when either fails the File is       *)
(* dropped and the next node is tried.  A display that does not initialise *)
(* is not terminated.                                                      *)
InitDisplay(t) ==
  /\ pc[t] = "init"
  /\ IF health[fd[t]] \in {"ok", "mute"}
     THEN /\ dpy' = [dpy EXCEPT ![t] = fd[t]]
          /\ Goto(t, IF prober = t THEN "query" ELSE "opened")
          /\ UNCHANGED <<fd, minor>>
     ELSE /\ fd' = [fd EXCEPT ![t] = None]
          /\ minor' = [minor EXCEPT ![t] = @ + 1]
          /\ Goto(t, "node")
          /\ UNCHANGED dpy
  /\ UNCHANGED <<health, changes, libva, runtime, caps, prober, call, kept, found, answers>>

NoNodeLeft(t) ==
  /\ pc[t] = "node" /\ minor[t] > Nodes
  /\ Goto(t, "failed")
  /\ UNCHANGED <<health, changes, libva, runtime, caps, prober, call, minor, fd, dpy,
                 kept, found, answers>>

-----------------------------------------------------------------------------
(* probe_uncached                                                          *)

(* Mutant: a driver without any profile of interest makes the probe (but   *)
(* not decoder()) go on to the next node.                                  *)
QueryProfiles_NextNode(t) ==
  /\ pc[t] = "query"
  /\ dpy' = [dpy EXCEPT ![t] = None]
  /\ IF Driver[dpy[t]] = {}
     THEN /\ fd' = [fd EXCEPT ![t] = None]
          /\ minor' = [minor EXCEPT ![t] = @ + 1]
          /\ Goto(t, "node")
          /\ UNCHANGED found
     ELSE /\ found' = Driver[dpy[t]]
          /\ Goto(t, "close")
          /\ UNCHANGED <<fd, minor>>
  /\ UNCHANGED <<health, changes, libva, runtime, caps, prober, call, kept, answers>>

(* The profile and entry point queries; then the display is terminated.    *)
QueryProfiles(t) ==
  /\ pc[t] = "query"
  /\ found' = IF health[dpy[t]] = "ok" THEN Driver[dpy[t]] ELSE {}
  /\ dpy' = [dpy EXCEPT ![t] = None]
  /\ Goto(t, "close")
  /\ UNCHANGED <<health, changes, libva, runtime, caps, prober, call, minor, fd, kept,
                 answers>>

CloseProbe(t) ==
  /\ pc[t] = "close"
  /\ fd' = [fd EXCEPT ![t] = None]
  /\ Goto(t, "publish")
  /\ UNCHANGED <<health, changes, libva, runtime, caps, prober, call, minor, dpy, kept,
                 found, answers>>

(* Mutant: a probe that opens no display is tried again.                   *)
OpenFailed_Retry(t) ==
  /\ pc[t] = "failed"
  /\ Goto(t, "open")
  /\ UNCHANGED <<health, changes, libva, runtime, caps, prober, call, minor, fd, dpy,
                 kept, found, answers>>

(* No display: the probe finds nothing (unwrap_or_default), decoder()      *)
(* returns None.                                                           *)
OpenFailed(t) ==
  /\ pc[t] = "failed"
  /\ IF prober = t
     THEN found' = {} /\ Goto(t, "publish") /\ UNCHANGED answers
     ELSE /\ answers' = answers \cup {Answer(call[t], {})}
          /\ Goto(t, "idle")
          /\ UNCHANGED found
  /\ UNCHANGED <<health, changes, libva, runtime, caps, prober, call, minor, fd, dpy,
                 kept>>

(* The initialiser returns: CAPS is set, whatever came of the probe.       *)
PublishCaps(t) ==
  /\ pc[t] = "publish"
  /\ caps' = found
  /\ prober' = None
  /\ Goto(t, "probe")
  /\ UNCHANGED <<health, changes, libva, runtime, call, minor, fd, dpy, kept, found,
                 answers>>

-----------------------------------------------------------------------------
(* decoder() returns a decoder that owns the display.                      *)
ReturnDecoder(t) ==
  /\ pc[t] = "opened"
  /\ kept' = [kept EXCEPT ![t] = call[t].codec]
  /\ answers' = answers \cup {Answer(call[t], {call[t].codec})}
  /\ Goto(t, "idle")
  /\ UNCHANGED <<health, changes, libva, runtime, caps, prober, call, minor, fd, dpy,
                 found>>

(* Mutant: the File is closed first.                                       *)
DropDecoder_FileFirst(t) ==
  /\ pc[t] = "idle" /\ kept[t] # None
  /\ fd' = [fd EXCEPT ![t] = None]
  /\ Goto(t, "drop")
  /\ UNCHANGED <<health, changes, libva, runtime, caps, prober, call, minor, dpy, kept,
                 found, answers>>

(* Drop::drop terminates the display, then the fields are dropped.         *)
DropDecoder(t) ==
  /\ pc[t] = "idle" /\ kept[t] # None
  /\ dpy' = [dpy EXCEPT ![t] = None]
  /\ Goto(t, "drop")
  /\ UNCHANGED <<health, changes, libva, runtime, caps, prober, call, minor, fd, kept,
                 found, answers>>

CloseDecoder(t) ==
  /\ pc[t] = "drop"
  /\ fd' = [fd EXCEPT ![t] = None]
  /\ kept' = [kept EXCEPT ![t] = None]
  /\ Goto(t, "idle")
  /\ UNCHANGED <<health, changes, libva, runtime, caps, prober, call, minor, dpy,
                 found, answers>>

(* The environment: a node changes under the running process.              *)
ChangeNode(n) ==
  /\ changes < MaxChanges /\ changes' = changes + 1
  /\ \E h \in Health \ {health[n]} : health' = [health EXCEPT ![n] = h]
  /\ UNCHANGED <<libva, runtime, caps, prober, pc, call, minor, fd, dpy, kept,
                 found, answers>>

-----------------------------------------------------------------------------
(* What a thread does once it is inside a call or a drop.                  *)
Step(t) ==
  \/ BecomeProber(t) \/ ReadCaps(t)
  \/ LoadRuntime(t) \/ OpenNode(t) \/ InitDisplay(t) \/ NoNodeLeft(t)
  \/ QueryProfiles(t) \/ CloseProbe(t) \/ OpenFailed(t) \/ PublishCaps(t)
  \/ ReturnDecoder(t) \/ CloseDecoder(t)

Next ==
  \/ \E t \in Thread : Step(t) \/ DropDecoder(t)
  \/ \E t \in Thread, c \in Calls : Enter(t, c)
  \/ \E n \in Node : ChangeNode(n)

Spec == Init /\ [][Next]_vars

(* Threads are scheduled and the calls they make return; a thread blocked  *)
(* on the OnceLock has no step to take until CAPS is set.                  *)
FairSpec == Spec /\ \A t \in Thread : WF_vars(Step(t))

-----------------------------------------------------------------------------
(* Invariants                                                              *)

(* However the threads interleave and whatever the nodes do meanwhile, all *)
(* calls of available_codecs() in one process return the same list, and a  *)
(* decoder is handed out only for a codec on it (probe: CAPS is set once). *)
AnswersAgree ==
  /\ \A a, b \in answers :
       a.call.op = "available" /\ b.call.op = "available" => a.result = b.result
  /\ \A a, b \in answers :
       a.call.op = "available" /\ b.call.op = "decoder" => b.result \subseteq a.result

(* "the `File` (and thus the fd libva borrowed) outlives the display"      *)
(* (VaDisplay): an initialised display always has its own node open.       *)
DisplayHasOpenFile ==
  \A t \in Thread : dpy[t] # None => fd[t] = dpy[t]

(* A thread that is idle and keeps no decoder holds no display and no      *)
(* device file, whichever way its last call went.                          *)
NothingHeldBetweenCalls ==
  \A t \in Thread :
    pc[t] = "idle" /\ kept[t] = None => fd[t] = None /\ dpy[t] = None

(* "`decoder()`, `backend()`, and `available_codecs()` must agree with     *)
(* each other" (lib.rs, discovery_entry_points_are_consistent): while no   *)
(* node has changed, a decoder is returned for every codec on the list.    *)
DecoderMatchesAvailable ==
  changes = 0 => \A a \in answers :
    a.call.op = "decoder" => (a.result # {} <=> a.call.codec \in CodecsOf(caps))

(* decoder() "answers from the driver's actual profile/entrypoint list":   *)
(* while no node has changed, the driver behind a decoder's display (which *)
(* is opened again, after the probe) decodes the decoder's codec.          *)
DecoderOnCapableDriver ==
  changes = 0 => \A t \in Thread :
    kept[t] # None /\ dpy[t] # None => kept[t] \in CodecsOf(Driver[dpy[t]])

(* Liveness: no caller waits for ever on the OnceLocks or on a drop.       *)
CallsReturn == \A t \in Thread : pc[t] # "idle" ~> pc[t] = "idle"

-----------------------------------------------------------------------------
(* The inductive invariant behind them                                     *)

Profile  == {"main", "main10", "av1"}
Location == {"idle", "probe", "open", "node", "init", "query", "close", "failed",
             "publish", "opened", "drop"}

TypeOK ==
  /\ health \in [Node -> Health] /\ changes \in Nat /\ libva \in BOOLEAN
  /\ runtime \in BOOLEAN \cup {None} /\ caps \in (SUBSET Profile) \cup {None}
  /\ prober \in Thread \cup {None} /\ pc \in [Thread -> Location]
  /\ call \in [Thread -> Calls \cup {None}] /\ minor \in [Thread -> 1..(Nodes + 1)]
  /\ fd \in [Thread -> Node \cup {None}] /\ dpy \in [Thread -> Node \cup {None}]
  /\ kept \in [Thread -> Codecs \cup {None}] /\ found \in SUBSET Profile
  /\ answers \subseteq [call: Calls, result: SUBSET Codecs]

(* What thread t holds at each point of the code: the File from the open   *)
(* of a node to the drop of its VaDisplay, the display within it.          *)
Holds(t) ==
  /\ kept[t] # None <=> pc[t] = "drop" \/ (pc[t] = "idle" /\ fd[t] # None)
  /\ fd[t] = IF pc[t] \in {"init", "query", "close", "opened", "drop"}
               \/ (pc[t] = "idle" /\ kept[t] # None)
             THEN minor[t] ELSE None
  /\ dpy[t] = IF pc[t] \in {"query", "opened"} \/ (pc[t] = "idle" /\ kept[t] # None)
              THEN fd[t] ELSE None
  /\ fd[t] # None => minor[t] \in Node

(* Who runs the initialiser of CAPS, and that everyone else who looks for  *)
(* a display does so for a codec CAPS has.                                 *)
Walking == {"open", "node", "init", "failed"}

Cached(t) ==
  /\ prober = t => caps = None /\ pc[t] \in Walking \cup {"query", "close", "publish"}
  /\ pc[t] \in {"query", "close", "publish"} => prober = t
  /\ pc[t] \notin {"idle", "drop"} => call[t] \in Calls
  /\ pc[t] = "opened" \/ (pc[t] \in Walking /\ prober # t) =>
       caps # None /\ call[t].op = "decoder" /\ call[t].codec \in CodecsOf(caps)
  /\ kept[t] # None => caps # None /\ kept[t] \in CodecsOf(caps)

(* Every answer given so far follows from CAPS.                            *)
Answered ==
  \A a \in answers :
    /\ caps # None
    /\ a.call.op = "available" => a.result = CodecsOf(caps)
    /\ a.call.op = "decoder" => a.result \subseteq {a.call.codec} \cap CodecsOf(caps)

(* While no node has changed every walk ends on the first usable node, if  *)
(* libva was loadable and there is one, and CAPS is what it answered.      *)
Usable(n)      == health[n] \in {"ok", "mute"}
NoneBefore(m)  == \A n \in Node : n < m => ~Usable(n)
First(n)       == n \in Node /\ Usable(n) /\ NoneBefore(n)
NoDisplay      == runtime = FALSE \/ \A n \in Node : ~Usable(n)
Answering(n)   == IF health[n] = "ok" THEN Driver[n] ELSE {}
Probed(result) ==
  \/ result = {} /\ NoDisplay
  \/ runtime = TRUE /\ \E n \in Node : First(n) /\ result = Answering(n)

Quiet(t) ==
  /\ pc[t] \in {"node", "init"} => runtime = TRUE /\ NoneBefore(minor[t])
  /\ dpy[t] # None => runtime = TRUE /\ First(dpy[t])
  /\ pc[t] = "failed" => NoDisplay
  /\ pc[t] \in {"close", "publish"} => Probed(found)

IInv ==
  /\ TypeOK
  /\ \A t \in Thread : Holds(t) /\ Cached(t)
  /\ Answered
  /\ changes = 0 =>
       /\ \A t \in Thread : Quiet(t)
       /\ caps # None => Probed(caps)
       /\ DecoderMatchesAvailable
=============================================================================
