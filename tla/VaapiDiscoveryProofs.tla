------------------------ MODULE VaapiDiscoveryProofs ------------------------
(***************************************************************************)
(* The two OnceLocks and the displays for any number of threads and render *)
(* nodes: IInv is inductive, and implies the invariants checked.           *)
(***************************************************************************)
EXTENDS VaapiDiscovery, TLAPS

(* The constants' types, in the names of the specification.                *)
LEMMA ConstantTypes ==
  /\ Driver \in [Node -> SUBSET Profile] /\ Nodes \in Nat \ {0}
  /\ None \notin Thread /\ None \notin BOOLEAN /\ None \notin Codecs
  /\ None \notin Node /\ None \notin 1..(Nodes + 1) /\ None \notin SUBSET Profile
BY DiscoveryAssumption DEF Node, Profile, Codecs

(* Profiles stand for codecs, no profile for none.                         *)
LEMMA CodecsType ==
  ASSUME NEW s \in SUBSET Profile
  PROVE  CodecsOf(s) \subseteq Codecs /\ CodecsOf({}) = {}
BY DEF CodecsOf, Codecs

(* A call of decoder() names a codec, one of available_codecs() none.      *)
LEMMA CallType ==
  ASSUME NEW c \in Calls
  PROVE  /\ c.op \in {"decoder", "available"}
         /\ c.op = "decoder" => c.codec \in Codecs
BY DEF Calls

(* A new answer has the type of an answer.                                 *)
LEMMA AnswerType ==
  ASSUME NEW c \in Calls, NEW s \in SUBSET Codecs
  PROVE  /\ Answer(c, s) \in [call: Calls, result: SUBSET Codecs]
         /\ Answer(c, s).call = c /\ Answer(c, s).result = s
BY DEF Answer

(* The first usable node is unique, and none before it is usable.          *)
LEMMA OneFirst ==
  ASSUME NEW m \in Node, NEW n \in Node, First(m), First(n)
  PROVE  m = n
BY ConstantTypes DEF First, NoneBefore, Node

(* The node after one that is not usable is the next to be tried.          *)
LEMMA NextNode ==
  ASSUME NEW m \in Node, NoneBefore(m), ~Usable(m)
  PROVE  NoneBefore(m + 1) /\ m + 1 \in 1..(Nodes + 1)
BY ConstantTypes DEF NoneBefore, Node

LEMMA InitIInv == Init => IInv
<1> SUFFICES ASSUME Init PROVE IInv
  OBVIOUS
<1> USE ConstantTypes DEF Init
<1>1. TypeOK
  <2>1. minor \in [Thread -> 1..(Nodes + 1)]
    OBVIOUS
  <2>2. answers \subseteq [call: Calls, result: SUBSET Codecs]
    OBVIOUS
  <2>3. /\ fd \in [Thread -> Node \cup {None}] /\ dpy \in [Thread -> Node \cup {None}]
        /\ kept \in [Thread -> Codecs \cup {None}]
        /\ call \in [Thread -> Calls \cup {None}]
    BY Zenon
  <2>4. pc \in [Thread -> Location]
    BY Zenon DEF Location
  <2>5. runtime \in BOOLEAN \cup {None} /\ prober \in Thread \cup {None}
        /\ caps \in (SUBSET Profile) \cup {None} /\ found \in SUBSET Profile
    <3>1. found \in SUBSET Profile
      OBVIOUS
    <3> QED
      BY <3>1
  <2>6. health \in [Node -> Health] /\ changes \in Nat /\ libva \in BOOLEAN
    OBVIOUS
  <2> QED
    BY <2>1, <2>2, <2>3, <2>4, <2>5, <2>6, Zenon DEF TypeOK
<1>2. ASSUME NEW t \in Thread PROVE Holds(t) /\ Cached(t) /\ Quiet(t)
  BY <1>2 DEF Holds, Cached, Quiet, Walking
<1> QED
  BY <1>1, <1>2 DEF IInv, Answered, DecoderMatchesAvailable

(* A call starts with probe().                                             *)
LEMMA EnterIInv ==
  ASSUME NEW t \in Thread, NEW c \in Calls PROVE IInv /\ Enter(t, c) => IInv'
<1> SUFFICES ASSUME IInv, Enter(t, c) PROVE IInv'
  OBVIOUS
<1> USE ConstantTypes DEF IInv, Enter, Goto
<1>1. TypeOK'
  BY DEF TypeOK, Location
<1>2. ASSUME NEW u \in Thread PROVE Holds(u)'
  BY DEF TypeOK, Holds
<1>3. ASSUME NEW u \in Thread PROVE Cached(u)'
  BY DEF TypeOK, Holds, Cached, Walking
<1>4. Answered'
  BY DEF TypeOK, Holds, Cached, Walking, Answered, Answer
<1>5. ASSUME changes' = 0, NEW u \in Thread PROVE Quiet(u)'
  BY <1>5 DEF TypeOK, Holds, Cached, Walking, Quiet, NoneBefore, First, Usable, NoDisplay, Probed, Answering
<1>6. ASSUME changes' = 0, caps' # None PROVE Probed(caps)'
  BY <1>6 DEF TypeOK, Holds, Cached, Walking, Quiet, NoneBefore, First, Usable, NoDisplay, Probed, Answering
<1>7. DecoderMatchesAvailable'
  BY DEF TypeOK, Holds, Cached, Walking, DecoderMatchesAvailable, Answer, Quiet, NoDisplay, Probed
<1> QED
  BY <1>1, <1>2, <1>3, <1>4, <1>5, <1>6, <1>7

(* One thread runs the initialiser.                                        *)
LEMMA BecomeProberIInv ==
  ASSUME NEW t \in Thread PROVE IInv /\ BecomeProber(t) => IInv'
<1> SUFFICES ASSUME IInv, BecomeProber(t) PROVE IInv'
  OBVIOUS
<1> USE ConstantTypes DEF IInv, BecomeProber, Goto
<1>1. TypeOK'
  BY DEF TypeOK, Location
<1>2. ASSUME NEW u \in Thread PROVE Holds(u)'
  BY DEF TypeOK, Holds
<1>3. ASSUME NEW u \in Thread PROVE Cached(u)'
  BY DEF TypeOK, Holds, Cached, Walking
<1>4. Answered'
  BY DEF TypeOK, Holds, Cached, Walking, Answered, Answer
<1>5. ASSUME changes' = 0, NEW u \in Thread PROVE Quiet(u)'
  BY <1>5 DEF TypeOK, Holds, Cached, Walking, Quiet, NoneBefore, First, Usable, NoDisplay, Probed, Answering
<1>6. ASSUME changes' = 0, caps' # None PROVE Probed(caps)'
  BY <1>6 DEF TypeOK, Holds, Cached, Walking, Quiet, NoneBefore, First, Usable, NoDisplay, Probed, Answering
<1>7. DecoderMatchesAvailable'
  BY DEF TypeOK, Holds, Cached, Walking, DecoderMatchesAvailable, Answer, Quiet, NoDisplay, Probed
<1> QED
  BY <1>1, <1>2, <1>3, <1>4, <1>5, <1>6, <1>7

(* Calls answer from CAPS, or open a display for a codec it has.           *)
LEMMA ReadCapsIInv ==
  ASSUME NEW t \in Thread PROVE IInv /\ ReadCaps(t) => IInv'
<1> SUFFICES ASSUME IInv, ReadCaps(t) PROVE IInv'
  OBVIOUS
<1> USE ConstantTypes DEF IInv, ReadCaps, Goto
<1>0. pc[t] = "probe" /\ caps # None
  OBVIOUS
<1>1. TypeOK'
  <2>1. caps \in SUBSET Profile
    BY <1>0 DEF TypeOK
  <2>1a. call[t] \in Calls
    BY <1>0 DEF Cached
  <2>2. answers' \subseteq [call: Calls, result: SUBSET Codecs]
    BY <2>1, <2>1a, CodecsType, AnswerType DEF TypeOK
  <2> QED
    BY <2>2 DEF TypeOK, Location
<1>2. ASSUME NEW u \in Thread PROVE Holds(u)'
  BY DEF TypeOK, Holds
<1>3. ASSUME NEW u \in Thread PROVE Cached(u)'
  <2>1. call[t].op \in {"decoder", "available"}
    BY CallType DEF Cached
  <2> QED
    BY <1>3, <2>1 DEF TypeOK, Cached, Walking
<1>4. Answered'
  BY DEF TypeOK, Holds, Cached, Walking, Answered, Answer
<1>5. ASSUME changes' = 0, NEW u \in Thread PROVE Quiet(u)'
  BY <1>5 DEF TypeOK, Holds, Cached, Walking, Quiet, NoneBefore, First, Usable, NoDisplay, Probed, Answering
<1>6. ASSUME changes' = 0, caps' # None PROVE Probed(caps)'
  BY <1>6 DEF TypeOK, Holds, Cached, Walking, Quiet, NoneBefore, First, Usable, NoDisplay, Probed, Answering
<1>7. DecoderMatchesAvailable'
  BY DEF TypeOK, Holds, Cached, Walking, DecoderMatchesAvailable, Answer, Quiet, NoDisplay, Probed
<1> QED
  BY <1>1, <1>2, <1>3, <1>4, <1>5, <1>6, <1>7

(* libva is looked for once.                                               *)
LEMMA LoadRuntimeIInv ==
  ASSUME NEW t \in Thread PROVE IInv /\ LoadRuntime(t) => IInv'
<1> SUFFICES ASSUME IInv, LoadRuntime(t) PROVE IInv'
  OBVIOUS
<1> USE ConstantTypes DEF IInv, LoadRuntime, Goto
<1>1. TypeOK'
  BY DEF TypeOK, Location
<1>2. ASSUME NEW u \in Thread PROVE Holds(u)'
  BY DEF TypeOK, Holds
<1>3. ASSUME NEW u \in Thread PROVE Cached(u)'
  BY DEF TypeOK, Holds, Cached, Walking
<1>4. Answered'
  BY DEF TypeOK, Holds, Cached, Walking, Answered, Answer
<1>5. ASSUME changes' = 0, NEW u \in Thread PROVE Quiet(u)'
  <2>1. pc[u] \notin {"open", "probe"} /\ dpy[u] # None => runtime' = runtime
    BY <1>5 DEF TypeOK, Quiet
  <2>2. NoDisplay => NoDisplay' 
    BY <1>5 DEF TypeOK, NoDisplay, Usable, Node
  <2>3. changes = 0 /\ Quiet(u) /\ Holds(u) /\ Holds(t)
    BY <1>5
  <2>4. runtime = TRUE => runtime' = TRUE
    BY DEF TypeOK
  <2>5. \A m : NoneBefore(m)' = NoneBefore(m) /\ First(m)' = First(m)
    BY DEF NoneBefore, First, Usable
  <2>6. Probed(found) => Probed(found)'
    BY <2>2, <2>4, <2>5 DEF Probed, Answering
  <2>7. CASE u = t
    <3>1. NoneBefore(1)
      BY ConstantTypes DEF NoneBefore, Node
    <3> QED
      BY <2>3, <2>5, <2>7, <3>1 DEF TypeOK, Holds, Quiet, NoDisplay
  <2>8. CASE u # t
    <3>1. UNCHANGED <<pc[u], minor[u], dpy[u]>>
      BY <2>8 DEF TypeOK
    <3> QED
      BY <2>2, <2>3, <2>4, <2>5, <2>6, <3>1 DEF Quiet
  <2> QED
    BY <2>7, <2>8
<1>6. ASSUME changes' = 0, caps' # None PROVE Probed(caps)'
  BY <1>6 DEF TypeOK, Holds, Cached, Walking, Quiet, NoneBefore, First, Usable, NoDisplay, Probed, Answering
<1>7. DecoderMatchesAvailable'
  BY DEF TypeOK, Holds, Cached, Walking, DecoderMatchesAvailable, Answer, Quiet, NoDisplay, Probed
<1> QED
  BY <1>1, <1>2, <1>3, <1>4, <1>5, <1>6, <1>7

(* A node that cannot be opened is skipped.                                *)
LEMMA OpenNodeIInv ==
  ASSUME NEW t \in Thread PROVE IInv /\ OpenNode(t) => IInv'
<1> SUFFICES ASSUME IInv, OpenNode(t) PROVE IInv'
  OBVIOUS
<1> USE ConstantTypes DEF IInv, OpenNode, Goto
<1>0. minor[t] \in Node /\ minor[t] + 1 \in 1..(Nodes + 1)
  BY DEF TypeOK, Node
<1>1. TypeOK'
  BY <1>0 DEF TypeOK, Location
<1>2. ASSUME NEW u \in Thread PROVE Holds(u)'
  BY <1>0 DEF TypeOK, Holds
<1>3. ASSUME NEW u \in Thread PROVE Cached(u)'
  BY DEF TypeOK, Holds, Cached, Walking
<1>4. Answered'
  BY DEF TypeOK, Holds, Cached, Walking, Answered, Answer
<1>5. ASSUME changes' = 0, NEW u \in Thread PROVE Quiet(u)'
  <2>1. changes = 0 /\ Quiet(u) /\ Quiet(t) /\ Holds(u) /\ Holds(t)
    BY <1>5
  <2>2. \A m : NoneBefore(m)' = NoneBefore(m) /\ First(m)' = First(m)
    BY DEF NoneBefore, First, Usable
  <2>3. NoDisplay' = NoDisplay /\ Probed(found)' = Probed(found)
    BY <2>2 DEF NoDisplay, Probed, Answering, Usable
  <2>4. CASE u = t /\ health[minor[t]] = "absent"
    <3>1. NoneBefore(minor[t] + 1)
      BY <1>0, <2>1, <2>4, NextNode DEF Quiet, Usable
    <3> QED
      BY <2>1, <2>2, <2>4, <3>1 DEF TypeOK, Holds, Quiet
  <2>5. CASE u = t /\ health[minor[t]] # "absent"
    BY <2>1, <2>2, <2>5 DEF TypeOK, Holds, Quiet
  <2>9. CASE u # t
    <3>1. UNCHANGED <<pc[u], minor[u], dpy[u]>>
      BY <2>9 DEF TypeOK
    <3> QED
      BY <2>1, <2>2, <2>3, <3>1 DEF Quiet
  <2> QED
    BY <2>4, <2>5, <2>9
<1>6. ASSUME changes' = 0, caps' # None PROVE Probed(caps)'
  BY <1>6 DEF TypeOK, Holds, Cached, Walking, Quiet, NoneBefore, First, Usable, NoDisplay, Probed, Answering
<1>7. DecoderMatchesAvailable'
  BY DEF TypeOK, Holds, Cached, Walking, DecoderMatchesAvailable, Answer, Quiet, NoDisplay, Probed
<1> QED
  BY <1>1, <1>2, <1>3, <1>4, <1>5, <1>6, <1>7

(* A display, or the next node.                                            *)
LEMMA InitDisplayIInv ==
  ASSUME NEW t \in Thread PROVE IInv /\ InitDisplay(t) => IInv'
<1> SUFFICES ASSUME IInv, InitDisplay(t) PROVE IInv'
  OBVIOUS
<1> USE ConstantTypes DEF IInv, InitDisplay, Goto
<1>0. fd[t] = minor[t] /\ minor[t] \in Node /\ minor[t] + 1 \in 1..(Nodes + 1)
  BY DEF TypeOK, Holds, Node
<1>1. TypeOK'
  BY <1>0 DEF TypeOK, Location
<1>2. ASSUME NEW u \in Thread PROVE Holds(u)'
  BY DEF TypeOK, Holds
<1>3. ASSUME NEW u \in Thread PROVE Cached(u)'
  BY DEF TypeOK, Holds, Cached, Walking
<1>4. Answered'
  BY DEF TypeOK, Holds, Cached, Walking, Answered, Answer
<1>5. ASSUME changes' = 0, NEW u \in Thread PROVE Quiet(u)'
  <2>1. changes = 0 /\ Quiet(u) /\ Quiet(t) /\ Holds(u) /\ Holds(t)
    BY <1>5
  <2>2. \A m : NoneBefore(m)' = NoneBefore(m) /\ First(m)' = First(m)
    BY DEF NoneBefore, First, Usable
  <2>3. NoDisplay' = NoDisplay /\ Probed(found)' = Probed(found)
    BY <2>2 DEF NoDisplay, Probed, Answering, Usable
  <2>4. CASE u = t /\ Usable(fd[t])
    <3>1. First(minor[t]) /\ runtime = TRUE
      BY <1>0, <2>1, <2>4 DEF Quiet, First
    <3> QED
      BY <1>0, <2>1, <2>2, <2>4, <3>1 DEF TypeOK, Quiet, Usable
  <2>5. CASE u = t /\ ~Usable(fd[t])
    <3>1. NoneBefore(minor[t] + 1) /\ runtime = TRUE
      BY <1>0, <2>1, <2>5, NextNode DEF Quiet
    <3> QED
      BY <2>1, <2>2, <2>5, <3>1 DEF TypeOK, Holds, Quiet, Usable
  <2>9. CASE u # t
    <3>1. UNCHANGED <<pc[u], minor[u], dpy[u]>>
      BY <2>9 DEF TypeOK
    <3> QED
      BY <2>1, <2>2, <2>3, <3>1 DEF Quiet
  <2> QED
    BY <2>4, <2>5, <2>9
<1>6. ASSUME changes' = 0, caps' # None PROVE Probed(caps)'
  BY <1>6 DEF TypeOK, Holds, Cached, Walking, Quiet, NoneBefore, First, Usable, NoDisplay, Probed, Answering
<1>7. DecoderMatchesAvailable'
  BY DEF TypeOK, Holds, Cached, Walking, DecoderMatchesAvailable, Answer, Quiet, NoDisplay, Probed
<1> QED
  BY <1>1, <1>2, <1>3, <1>4, <1>5, <1>6, <1>7

(* Every node was tried.                                                   *)
LEMMA NoNodeLeftIInv ==
  ASSUME NEW t \in Thread PROVE IInv /\ NoNodeLeft(t) => IInv'
<1> SUFFICES ASSUME IInv, NoNodeLeft(t) PROVE IInv'
  OBVIOUS
<1> USE ConstantTypes DEF IInv, NoNodeLeft, Goto
<1>1. TypeOK'
  BY DEF TypeOK, Location
<1>2. ASSUME NEW u \in Thread PROVE Holds(u)'
  BY DEF TypeOK, Holds
<1>3. ASSUME NEW u \in Thread PROVE Cached(u)'
  BY DEF TypeOK, Holds, Cached, Walking
<1>4. Answered'
  BY DEF TypeOK, Holds, Cached, Walking, Answered, Answer
<1>5. ASSUME changes' = 0, NEW u \in Thread PROVE Quiet(u)'
  <2>1. changes = 0 /\ Quiet(u) /\ Quiet(t) /\ Holds(u) /\ Holds(t)
    BY <1>5
  <2>2. \A m : NoneBefore(m)' = NoneBefore(m) /\ First(m)' = First(m)
    BY DEF NoneBefore, First, Usable
  <2>3. NoDisplay' = NoDisplay /\ Probed(found)' = Probed(found)
    BY <2>2 DEF NoDisplay, Probed, Answering, Usable
  <2>4. CASE u = t
    <3>1. minor[t] \in 1..(Nodes + 1) /\ NoneBefore(minor[t])
      BY <2>1 DEF TypeOK, Quiet
    <3>2. NoDisplay
      BY <3>1 DEF NoneBefore, NoDisplay, Node
    <3> QED
      BY <2>1, <2>3, <2>4, <3>2 DEF TypeOK, Holds, Quiet
  <2>9. CASE u # t
    <3>1. UNCHANGED <<pc[u], minor[u], dpy[u]>>
      BY <2>9 DEF TypeOK
    <3> QED
      BY <2>1, <2>2, <2>3, <3>1 DEF Quiet
  <2> QED
    BY <2>4, <2>9
<1>6. ASSUME changes' = 0, caps' # None PROVE Probed(caps)'
  BY <1>6 DEF TypeOK, Holds, Cached, Walking, Quiet, NoneBefore, First, Usable, NoDisplay, Probed, Answering
<1>7. DecoderMatchesAvailable'
  BY DEF TypeOK, Holds, Cached, Walking, DecoderMatchesAvailable, Answer, Quiet, NoDisplay, Probed
<1> QED
  BY <1>1, <1>2, <1>3, <1>4, <1>5, <1>6, <1>7

(* The profiles of the first node with a display.                          *)
LEMMA QueryProfilesIInv ==
  ASSUME NEW t \in Thread PROVE IInv /\ QueryProfiles(t) => IInv'
<1> SUFFICES ASSUME IInv, QueryProfiles(t) PROVE IInv'
  OBVIOUS
<1> USE ConstantTypes DEF IInv, QueryProfiles, Goto
<1>0. /\ dpy[t] \in Node /\ prober = t
      /\ found' = Answering(dpy[t]) /\ found' \in SUBSET Profile
  <2>1. dpy[t] \in Node /\ prober = t
    BY DEF TypeOK, Holds, Cached
  <2>2. Driver[dpy[t]] \in SUBSET Profile
    BY <2>1
  <2> QED
    BY <2>1, <2>2 DEF Answering
<1>1. TypeOK'
  BY <1>0 DEF TypeOK, Location
<1>2. ASSUME NEW u \in Thread PROVE Holds(u)'
  BY DEF TypeOK, Holds
<1>3. ASSUME NEW u \in Thread PROVE Cached(u)'
  BY DEF TypeOK, Holds, Cached, Walking
<1>4. Answered'
  BY DEF TypeOK, Holds, Cached, Walking, Answered, Answer
<1>5. ASSUME changes' = 0, NEW u \in Thread PROVE Quiet(u)'
  <2>1. changes = 0 /\ Quiet(u) /\ Quiet(t) /\ Holds(u) /\ Holds(t)
    BY <1>5
  <2>2. \A m : NoneBefore(m)' = NoneBefore(m) /\ First(m)' = First(m)
    BY DEF NoneBefore, First, Usable
  <2>3. NoDisplay' = NoDisplay
    BY DEF NoDisplay, Usable
  <2>4. CASE u = t
    <3>1. Probed(found')
      BY <1>0, <2>1 DEF Quiet, Probed
    <3>2. Probed(found)' = Probed(found')
      BY <2>2, <2>3 DEF Probed, Answering
    <3> QED
      BY <2>4, <3>1, <3>2 DEF TypeOK, Quiet
  <2>9. CASE u # t
    <3>1. UNCHANGED <<pc[u], minor[u], dpy[u]>> /\ pc[u] \notin {"close", "publish"}
      BY <1>0, <2>9 DEF TypeOK, Cached
    <3> QED
      BY <2>1, <2>2, <2>3, <3>1 DEF Quiet
  <2> QED
    BY <2>4, <2>9
<1>6. ASSUME changes' = 0, caps' # None PROVE Probed(caps)'
  BY <1>6 DEF TypeOK, Holds, Cached, Walking, Quiet, NoneBefore, First, Usable, NoDisplay, Probed, Answering
<1>7. DecoderMatchesAvailable'
  BY DEF TypeOK, Holds, Cached, Walking, DecoderMatchesAvailable, Answer, Quiet, NoDisplay, Probed
<1> QED
  BY <1>1, <1>2, <1>3, <1>4, <1>5, <1>6, <1>7

(* The probe's File is closed.                                             *)
LEMMA CloseProbeIInv ==
  ASSUME NEW t \in Thread PROVE IInv /\ CloseProbe(t) => IInv'
<1> SUFFICES ASSUME IInv, CloseProbe(t) PROVE IInv'
  OBVIOUS
<1> USE ConstantTypes DEF IInv, CloseProbe, Goto
<1>1. TypeOK'
  BY DEF TypeOK, Location
<1>2. ASSUME NEW u \in Thread PROVE Holds(u)'
  BY DEF TypeOK, Holds
<1>3. ASSUME NEW u \in Thread PROVE Cached(u)'
  BY DEF TypeOK, Holds, Cached, Walking
<1>4. Answered'
  BY DEF TypeOK, Holds, Cached, Walking, Answered, Answer
<1>5. ASSUME changes' = 0, NEW u \in Thread PROVE Quiet(u)'
  BY <1>5 DEF TypeOK, Holds, Cached, Walking, Quiet, NoneBefore, First, Usable, NoDisplay, Probed, Answering
<1>6. ASSUME changes' = 0, caps' # None PROVE Probed(caps)'
  BY <1>6 DEF TypeOK, Holds, Cached, Walking, Quiet, NoneBefore, First, Usable, NoDisplay, Probed, Answering
<1>7. DecoderMatchesAvailable'
  BY DEF TypeOK, Holds, Cached, Walking, DecoderMatchesAvailable, Answer, Quiet, NoDisplay, Probed
<1> QED
  BY <1>1, <1>2, <1>3, <1>4, <1>5, <1>6, <1>7

(* No display: nothing found, or no decoder.                               *)
LEMMA OpenFailedIInv ==
  ASSUME NEW t \in Thread PROVE IInv /\ OpenFailed(t) => IInv'
<1> SUFFICES ASSUME IInv, OpenFailed(t) PROVE IInv'
  OBVIOUS
<1> USE ConstantTypes DEF IInv, OpenFailed, Goto
<1>0. call[t] \in Calls /\ Answer(call[t], {}) \in [call: Calls, result: SUBSET Codecs]
  <2>1. call[t] \in Calls
    BY DEF Cached
  <2> QED
    BY <2>1, AnswerType
<1>1. TypeOK'
  BY <1>0 DEF TypeOK, Location
<1>2. ASSUME NEW u \in Thread PROVE Holds(u)'
  BY DEF TypeOK, Holds
<1>3. ASSUME NEW u \in Thread PROVE Cached(u)'
  BY DEF TypeOK, Holds, Cached, Walking
<1>4. Answered'
  BY DEF TypeOK, Holds, Cached, Walking, Answered, Answer
<1>5. ASSUME changes' = 0, NEW u \in Thread PROVE Quiet(u)'
  BY <1>5 DEF TypeOK, Holds, Cached, Walking, Quiet, NoneBefore, First, Usable, NoDisplay, Probed, Answering
<1>6. ASSUME changes' = 0, caps' # None PROVE Probed(caps)'
  BY <1>6 DEF TypeOK, Holds, Cached, Walking, Quiet, NoneBefore, First, Usable, NoDisplay, Probed, Answering
<1>7. DecoderMatchesAvailable'
  <2> SUFFICES ASSUME changes = 0, NEW a \in answers', a.call.op = "decoder"
               PROVE  a.result # {} <=> a.call.codec \in CodecsOf(caps)
    BY DEF DecoderMatchesAvailable
  <2>1. CASE a \in answers
    BY <2>1 DEF DecoderMatchesAvailable
  <2>2. CASE a \notin answers
    <3>1. a = Answer(call[t], {}) /\ prober # t
      BY <2>2
    <3>2. a.result = {} /\ caps # None /\ a.call.codec \in CodecsOf(caps)
      BY <1>0, <3>1, AnswerType DEF Cached, Walking
    <3>3. Probed(caps) /\ NoDisplay
      BY <3>2 DEF Quiet
    <3>4. caps = {}
      BY <3>3, Zenon DEF Probed, NoDisplay, First, Usable
    <3> QED
      BY <3>2, <3>4, CodecsType DEF CodecsOf
  <2> QED
    BY <2>1, <2>2
<1> QED
  BY <1>1, <1>2, <1>3, <1>4, <1>5, <1>6, <1>7

(* CAPS is set, once.                                                      *)
LEMMA PublishCapsIInv ==
  ASSUME NEW t \in Thread PROVE IInv /\ PublishCaps(t) => IInv'
<1> SUFFICES ASSUME IInv, PublishCaps(t) PROVE IInv'
  OBVIOUS
<1> USE ConstantTypes DEF IInv, PublishCaps, Goto
<1>1. TypeOK'
  BY DEF TypeOK, Location
<1>2. ASSUME NEW u \in Thread PROVE Holds(u)'
  BY DEF TypeOK, Holds
<1>3. ASSUME NEW u \in Thread PROVE Cached(u)'
  BY DEF TypeOK, Holds, Cached, Walking
<1>4. Answered'
  BY DEF TypeOK, Holds, Cached, Walking, Answered, Answer
<1>5. ASSUME changes' = 0, NEW u \in Thread PROVE Quiet(u)'
  BY <1>5 DEF TypeOK, Holds, Cached, Walking, Quiet, NoneBefore, First, Usable, NoDisplay, Probed, Answering
<1>6. ASSUME changes' = 0, caps' # None PROVE Probed(caps)'
  BY <1>6 DEF TypeOK, Holds, Cached, Walking, Quiet, NoneBefore, First, Usable, NoDisplay, Probed, Answering
<1>7. DecoderMatchesAvailable'
  <2>1. caps = None /\ answers' = {}
    BY DEF Cached, Answered
  <2> QED
    BY <2>1 DEF DecoderMatchesAvailable
<1> QED
  BY <1>1, <1>2, <1>3, <1>4, <1>5, <1>6, <1>7

(* The decoder takes the display.                                          *)
LEMMA ReturnDecoderIInv ==
  ASSUME NEW t \in Thread PROVE IInv /\ ReturnDecoder(t) => IInv'
<1> SUFFICES ASSUME IInv, ReturnDecoder(t) PROVE IInv'
  OBVIOUS
<1> USE ConstantTypes DEF IInv, ReturnDecoder, Goto
<1>0. /\ call[t] \in Calls /\ call[t].codec \in Codecs /\ call[t].codec \in CodecsOf(caps)
      /\ Answer(call[t], {call[t].codec}) \in [call: Calls, result: SUBSET Codecs]
  <2>1. call[t] \in Calls /\ call[t].op = "decoder" /\ call[t].codec \in CodecsOf(caps)
    BY DEF Cached
  <2>2. {call[t].codec} \in SUBSET Codecs
    BY <2>1, CallType
  <2> QED
    BY <2>1, <2>2, AnswerType
<1>1. TypeOK'
  BY <1>0 DEF TypeOK, Location
<1>2. ASSUME NEW u \in Thread PROVE Holds(u)'
  BY <1>0 DEF TypeOK, Holds
<1>3. ASSUME NEW u \in Thread PROVE Cached(u)'
  BY DEF TypeOK, Holds, Cached, Walking
<1>4. Answered'
  BY DEF TypeOK, Holds, Cached, Walking, Answered, Answer
<1>5. ASSUME changes' = 0, NEW u \in Thread PROVE Quiet(u)'
  BY <1>5 DEF TypeOK, Holds, Cached, Walking, Quiet, NoneBefore, First, Usable, NoDisplay, Probed, Answering
<1>6. ASSUME changes' = 0, caps' # None PROVE Probed(caps)'
  BY <1>6 DEF TypeOK, Holds, Cached, Walking, Quiet, NoneBefore, First, Usable, NoDisplay, Probed, Answering
<1>7. DecoderMatchesAvailable'
  <2>1. /\ Answer(call[t], {call[t].codec}).result # {}
        /\ Answer(call[t], {call[t].codec}).call = call[t]
    BY DEF Answer
  <2> QED
    BY <1>0, <2>1 DEF DecoderMatchesAvailable
<1> QED
  BY <1>1, <1>2, <1>3, <1>4, <1>5, <1>6, <1>7

(* The File is closed after the display.                                   *)
LEMMA CloseDecoderIInv ==
  ASSUME NEW t \in Thread PROVE IInv /\ CloseDecoder(t) => IInv'
<1> SUFFICES ASSUME IInv, CloseDecoder(t) PROVE IInv'
  OBVIOUS
<1> USE ConstantTypes DEF IInv, CloseDecoder, Goto
<1>1. TypeOK'
  BY DEF TypeOK, Location
<1>2. ASSUME NEW u \in Thread PROVE Holds(u)'
  BY DEF TypeOK, Holds
<1>3. ASSUME NEW u \in Thread PROVE Cached(u)'
  BY DEF TypeOK, Holds, Cached, Walking
<1>4. Answered'
  BY DEF TypeOK, Holds, Cached, Walking, Answered, Answer
<1>5. ASSUME changes' = 0, NEW u \in Thread PROVE Quiet(u)'
  BY <1>5 DEF TypeOK, Holds, Cached, Walking, Quiet, NoneBefore, First, Usable, NoDisplay, Probed, Answering
<1>6. ASSUME changes' = 0, caps' # None PROVE Probed(caps)'
  BY <1>6 DEF TypeOK, Holds, Cached, Walking, Quiet, NoneBefore, First, Usable, NoDisplay, Probed, Answering
<1>7. DecoderMatchesAvailable'
  BY DEF TypeOK, Holds, Cached, Walking, DecoderMatchesAvailable, Answer, Quiet, NoDisplay, Probed
<1> QED
  BY <1>1, <1>2, <1>3, <1>4, <1>5, <1>6, <1>7

(* The display is terminated first.                                        *)
LEMMA DropDecoderIInv ==
  ASSUME NEW t \in Thread PROVE IInv /\ DropDecoder(t) => IInv'
<1> SUFFICES ASSUME IInv, DropDecoder(t) PROVE IInv'
  OBVIOUS
<1> USE ConstantTypes DEF IInv, DropDecoder, Goto
<1>1. TypeOK'
  BY DEF TypeOK, Location
<1>2. ASSUME NEW u \in Thread PROVE Holds(u)'
  BY DEF TypeOK, Holds
<1>3. ASSUME NEW u \in Thread PROVE Cached(u)'
  BY <1>3 DEF TypeOK, Holds, Cached, Walking
<1>4. Answered'
  BY DEF TypeOK, Holds, Cached, Walking, Answered, Answer
<1>5. ASSUME changes' = 0, NEW u \in Thread PROVE Quiet(u)'
  BY <1>5 DEF TypeOK, Holds, Cached, Walking, Quiet, NoneBefore, First, Usable, NoDisplay, Probed, Answering
<1>6. ASSUME changes' = 0, caps' # None PROVE Probed(caps)'
  BY <1>6 DEF TypeOK, Holds, Cached, Walking, Quiet, NoneBefore, First, Usable, NoDisplay, Probed, Answering
<1>7. DecoderMatchesAvailable'
  BY DEF TypeOK, Holds, Cached, Walking, DecoderMatchesAvailable, Answer, Quiet, NoDisplay, Probed
<1> QED
  BY <1>1, <1>2, <1>3, <1>4, <1>5, <1>6, <1>7

(* A node changes: what was true of unchanged nodes is off.                *)
LEMMA ChangeNodeIInv ==
  ASSUME NEW n \in Node PROVE IInv /\ ChangeNode(n) => IInv'
<1> SUFFICES ASSUME IInv, ChangeNode(n) PROVE IInv'
  OBVIOUS
<1> USE ConstantTypes DEF IInv, ChangeNode
<1>1. TypeOK'
  BY DEF TypeOK, Location
<1>2. ASSUME NEW u \in Thread PROVE Holds(u)'
  BY DEF TypeOK, Holds
<1>3. ASSUME NEW u \in Thread PROVE Cached(u)'
  BY DEF TypeOK, Holds, Cached, Walking
<1>4. Answered'
  BY DEF TypeOK, Holds, Cached, Walking, Answered, Answer
<1>5. ASSUME changes' = 0, NEW u \in Thread PROVE Quiet(u)'
  BY <1>5 DEF TypeOK, Holds, Cached, Walking, Quiet, NoneBefore, First, Usable, NoDisplay, Probed, Answering
<1>6. ASSUME changes' = 0, caps' # None PROVE Probed(caps)'
  BY <1>6 DEF TypeOK, Holds, Cached, Walking, Quiet, NoneBefore, First, Usable, NoDisplay, Probed, Answering
<1>7. DecoderMatchesAvailable'
  BY DEF TypeOK, Holds, Cached, Walking, DecoderMatchesAvailable, Answer, Quiet, NoDisplay, Probed
<1> QED
  BY <1>1, <1>2, <1>3, <1>4, <1>5, <1>6, <1>7

LEMMA StepIInv == ASSUME NEW t \in Thread PROVE IInv /\ Step(t) => IInv'
BY BecomeProberIInv, ReadCapsIInv, LoadRuntimeIInv, OpenNodeIInv, InitDisplayIInv,
   NoNodeLeftIInv, QueryProfilesIInv, CloseProbeIInv, OpenFailedIInv, PublishCapsIInv,
   ReturnDecoderIInv, CloseDecoderIInv DEF Step

LEMMA NextIInv == IInv /\ [Next]_vars => IInv'
<1> SUFFICES ASSUME IInv, [Next]_vars PROVE IInv'
  OBVIOUS
<1>1. CASE Next
  BY <1>1, StepIInv, DropDecoderIInv, EnterIInv, ChangeNodeIInv DEF Next
<1>2. CASE UNCHANGED vars
  BY <1>2 DEF vars, IInv, TypeOK, Holds, Cached, Answered, Quiet, Probed, First,
     NoneBefore, Usable, NoDisplay, Answering, DecoderMatchesAvailable
<1> QED
  BY <1>1, <1>2

(* IInv holds in every reachable state.                                    *)
THEOREM Inductive == Spec => []IInv
BY InitIInv, NextIInv, PTL DEF Spec

(* Every variable keeps the type of its Rust counterpart.                  *)
THEOREM TypeCorrect == Spec => []TypeOK
<1>1. IInv => TypeOK
  BY DEF IInv
<1> QED
  BY <1>1, Inductive, PTL

(* However many threads call, and whatever the nodes do meanwhile: one     *)
(* list of codecs per process, and no decoder for a codec not on it.       *)
THEOREM AnswersAlwaysAgree == Spec => []AnswersAgree
<1>1. IInv => AnswersAgree
  BY DEF IInv, Answered, AnswersAgree
<1> QED
  BY <1>1, Inductive, PTL

(* The File of a display outlives it, on every path of VaDisplay::open and *)
(* of drop.                                                                *)
THEOREM DisplayAlwaysHasOpenFile == Spec => []DisplayHasOpenFile
<1>1. IInv => DisplayHasOpenFile
  BY ConstantTypes DEF IInv, Holds, DisplayHasOpenFile
<1> QED
  BY <1>1, Inductive, PTL

(* No path of probe or decoder() leaves a device file or display behind.   *)
THEOREM NothingStaysHeld == Spec => []NothingHeldBetweenCalls
<1>1. IInv => NothingHeldBetweenCalls
  BY ConstantTypes DEF IInv, Holds, NothingHeldBetweenCalls
<1> QED
  BY <1>1, Inductive, PTL

(* While no node changes, available_codecs() and decoder() agree.          *)
THEOREM DecoderAlwaysMatches == Spec => []DecoderMatchesAvailable
<1>1. IInv => DecoderMatchesAvailable
  BY DEF IInv, DecoderMatchesAvailable
<1> QED
  BY <1>1, Inductive, PTL

(* While no node changes, the display a decoder opens for itself is on the *)
(* node the probe has asked: the first usable one.                         *)
THEOREM DecoderAlwaysOnCapableDriver == Spec => []DecoderOnCapableDriver
<1>1. IInv => DecoderOnCapableDriver
  <2> SUFFICES ASSUME IInv, changes = 0, NEW t \in Thread, kept[t] # None, dpy[t] # None
               PROVE  kept[t] \in CodecsOf(Driver[dpy[t]])
    BY DEF DecoderOnCapableDriver
  <2>1. dpy[t] \in Node /\ First(dpy[t])
    BY DEF IInv, TypeOK, Quiet
  <2>2. Probed(caps) /\ kept[t] \in CodecsOf(caps)
    BY DEF IInv, Cached
  <2>3. caps # {}
    BY <2>2 DEF CodecsOf
  <2>4. PICK n \in Node : First(n) /\ caps = Answering(n)
    BY <2>2, <2>3 DEF Probed
  <2>5. n = dpy[t]
    BY <2>1, <2>4, OneFirst
  <2> QED
    BY <2>2, <2>3, <2>4, <2>5 DEF Answering
<1> QED
  BY <1>1, Inductive, PTL
=============================================================================
