------------------------- MODULE VaapiDecoderProofs -------------------------
(***************************************************************************)
(* The safety of the libva backend for every set of requests, handles and  *)
(* capabilities: IInv is inductive, and implies the invariants checked.    *)
(* On top of it, that the backend implements the contract of               *)
(* HwStillDecoder: what is read back is the picture of the request         *)
(* (PictureInv), so every result a call decides is one the contract allows *)
(* (OutcomeInv), the step that returns it is the contract's, and the rest  *)
(* stutters.                                                               *)
(***************************************************************************)
EXTENDS VaapiDecoder, SequenceTheorems, TLAPS

(* None is no handle, object, profile, format, request or picture.         *)
LEMMA NoneIsNothing ==
  /\ None \notin Id /\ None \notin SessionShape /\ None \notin SurfaceShape
  /\ None \notin ContextShape /\ None \notin ImageShape
  /\ None \notin Profile /\ None \notin Fourcc /\ None \notin Request
BY DriverAssumption, NoneAssumption

(* The session key of a request is a key.                                  *)
LEMMA KeyType == ASSUME NEW r \in Request PROVE KeyOf(r) \in Key
BY RequestAssumption DEF KeyOf, Key, ProfileOf, FourccOf, RequestShape, Profile, Fourcc

(* Screen names an error, or "ok".                                         *)
LEMMA ScreenType ==
  ASSUME NEW r \in Request
  PROVE Screen(r) \in {"ok", "decode", "unavailable"}
BY DEF Screen

(* Every error is a reply.                                                 *)
LEMMA ErrorType ==
  ASSUME NEW k \in {"decode", "unavailable", "invalid"}
  PROVE Error(k) \in Reply
BY DEF Error, Errors, Reply

LEMMA InitIInv == Init => IInv
<1> SUFFICES ASSUME Init PROVE IInv
  OBVIOUS
<1> USE NoneIsNothing DEF Init
<1>1. TypeOK
  <2>1. jobs \in Seq(JobShape)
    BY Z3
  <2>2. work \in WorkShape
    BY DEF WorkShape, NoWork
  <2>3. /\ config \in [Id -> Profile \cup {None}]
        /\ surface \in [Id -> SurfaceShape \cup {None}]
        /\ context \in [Id -> ContextShape \cup {None}]
        /\ image \in [Id -> ImageShape \cup {None}]
    BY Zenon
  <2> QED
    BY <2>1, <2>2, <2>3 DEF TypeOK, Location
<1>2. ControlInv
  BY DEF ControlInv, Destroying, Creating, UsesSession
<1>3. WorkInv
  BY DEF WorkInv, Destroying, NoWork
<1>4. ImageInv
  BY DEF ImageInv, HoldsImage
<1>5. SessionInv
  BY DEF SessionInv
<1>6. LedgerExact
  BY DEF LedgerExact, Live, Held, NoWork
<1> QED
  BY <1>1, <1>2, <1>3, <1>4, <1>5, <1>6 DEF IInv

LEMMA OpenIInv == IInv /\ Open => IInv'
<1> SUFFICES ASSUME IInv, Open PROVE IInv'
  OBVIOUS
<1> USE NoneIsNothing DEF Open, driverVars, localVars, IInv
<1>1. TypeOK'
  BY ErrorType, KeyType DEF TypeOK, Location, WorkShape, Fail
<1>2. ControlInv'
  BY DEF ControlInv, Destroying, Creating, UsesSession, HoldsImage
<1>3. WorkInv'
  BY DEF TypeOK, WorkShape, WorkInv, Destroying, Creating, ControlInv, NoWork
<1>4. ImageInv'
  BY DEF TypeOK, ImageInv, HoldsImage, ReadFrom
<1>5. SessionInv'
  BY DEF TypeOK, ControlInv, Destroying, UsesSession, Creating, SessionInv, Objects, Renders, Surfaces
<1>6. LedgerExact'
  BY DEF TypeOK, WorkShape, ControlInv, Destroying, Creating, UsesSession, HoldsImage, WorkInv, ImageInv, LedgerExact, Live, Held
<1> QED
  BY <1>1, <1>2, <1>3, <1>4, <1>5, <1>6 DEF IInv

LEMMA DecodeStillIInv ==
  ASSUME NEW r \in Request PROVE IInv /\ DecodeStill(r) => IInv'
<1> SUFFICES ASSUME IInv, DecodeStill(r) PROVE IInv'
  OBVIOUS
<1> USE NoneIsNothing DEF IInv
<1>1. /\ pc = "idle" /\ req' = r /\ pc' \in {"session", "return"}
      /\ UNCHANGED <<driverVars, session, dropping, work, left, queue, img>>
  BY DEF DecodeStill
<1>2. outcome' \in Reply \cup {None}
  BY ScreenType, ErrorType DEF DecodeStill, Fail
<1>3. TypeOK'
  BY <1>1, <1>2 DEF TypeOK, Location, driverVars
<1>4. ControlInv'
  BY <1>1 DEF ControlInv, Destroying, Creating, UsesSession
<1>5. WorkInv'
  BY <1>1 DEF WorkInv, Destroying, NoWork
<1>6. ImageInv'
  BY <1>1 DEF ImageInv, HoldsImage, driverVars
<1>7. SessionInv'
  BY <1>1 DEF SessionInv, Objects, Renders, Surfaces, driverVars
<1>8. LedgerExact'
  BY <1>1 DEF LedgerExact, Live, Held, driverVars
<1> QED
  BY <1>3, <1>4, <1>5, <1>6, <1>7, <1>8

LEMMA ReturnIInv == IInv /\ Return => IInv'
<1> SUFFICES ASSUME IInv, Return PROVE IInv'
  OBVIOUS
<1> USE NoneIsNothing DEF Return, driverVars, localVars, IInv
<1>1. TypeOK'
  BY ErrorType, KeyType DEF TypeOK, Location, WorkShape, Fail
<1>2. ControlInv'
  BY DEF ControlInv, Destroying, Creating, UsesSession, HoldsImage
<1>3. WorkInv'
  BY DEF TypeOK, WorkShape, WorkInv, Destroying, Creating, ControlInv, NoWork
<1>4. ImageInv'
  BY DEF TypeOK, ImageInv, HoldsImage, ReadFrom
<1>5. SessionInv'
  BY DEF TypeOK, ControlInv, Destroying, UsesSession, Creating, SessionInv, Objects, Renders, Surfaces
<1>6. LedgerExact'
  BY DEF TypeOK, WorkShape, ControlInv, Destroying, Creating, UsesSession, HoldsImage, WorkInv, ImageInv, LedgerExact, Live, Held
<1> QED
  BY <1>1, <1>2, <1>3, <1>4, <1>5, <1>6 DEF IInv

LEMMA ReuseSessionIInv == IInv /\ ReuseSession => IInv'
<1> SUFFICES ASSUME IInv, ReuseSession PROVE IInv'
  OBVIOUS
<1> USE DEF ReuseSession, driverVars, localVars
<1>1. TypeOK'
  BY DEF IInv, TypeOK, Location
<1>2. ControlInv'
  BY DEF IInv, ControlInv, Destroying, Creating, UsesSession
<1>3. WorkInv'
  BY DEF IInv, WorkInv, Destroying
<1>4. ImageInv'
  BY DEF IInv, ImageInv, HoldsImage
<1>5. SessionInv'
  BY DEF IInv, SessionInv, Objects, Renders, Surfaces
<1>6. LedgerExact'
  BY DEF IInv, LedgerExact, Live, Held
<1> QED
  BY <1>1, <1>2, <1>3, <1>4, <1>5, <1>6 DEF IInv

LEMMA ReplaceSessionIInv == IInv /\ ReplaceSession => IInv'
<1> SUFFICES ASSUME IInv, ReplaceSession PROVE IInv'
  OBVIOUS
<1> USE NoneIsNothing DEF IInv, ReplaceSession, driverVars
<1>1. CASE session = None
  <2> USE <1>1
  <2>1. TypeOK'
    BY DEF TypeOK, Location
  <2>2. ControlInv'
    BY DEF ControlInv, Destroying, Creating, UsesSession
  <2>3. WorkInv'
    BY DEF WorkInv, Destroying, NoWork
  <2>4. ImageInv'
    BY DEF ImageInv, HoldsImage
  <2>5. SessionInv'
    BY DEF SessionInv
  <2>6. LedgerExact'
    BY DEF LedgerExact, Live, Held
  <2> QED
    BY <2>1, <2>2, <2>3, <2>4, <2>5, <2>6
<1>2. CASE session # None
  <2>1. /\ session \in SessionShape /\ session' = None
        /\ work = NoWork /\ work' = Handles(session)
        /\ pc = "session" /\ pc' = "destroyContext"
    BY <1>2 DEF TypeOK, WorkInv, Destroying
  <2>2. /\ work' \in WorkShape
        /\ work'.config = session.config /\ work'.context = session.context
        /\ work'.decode = session.decode /\ work'.display = session.display
    BY <2>1 DEF SessionShape, WorkShape, Handles
  <2>3. TypeOK'
    BY <2>1, <2>2 DEF TypeOK, Location
  <2>4. ControlInv'
    BY <2>1 DEF ControlInv, Destroying, Creating, UsesSession
  <2>5. WorkInv'
    BY <1>2, <2>1, <2>2 DEF SessionShape, WorkInv, Destroying, SessionInv, Objects
  <2>6. ImageInv'
    BY <2>1 DEF ImageInv, HoldsImage
  <2>7. SessionInv'
    BY <1>2, <2>1, <2>2 DEF SessionInv, Renders, Surfaces
  <2>8. LedgerExact'
    BY <1>2, <2>1, <2>2 DEF LedgerExact, Live, Held, NoWork
  <2> QED
    BY <2>3, <2>4, <2>5, <2>6, <2>7, <2>8
<1> QED
  BY <1>1, <1>2

LEMMA DestroyContextIInv == IInv /\ DestroyContext => IInv'
<1> SUFFICES ASSUME IInv, DestroyContext PROVE IInv'
  OBVIOUS
<1> USE DEF DestroyContext
<1>1. TypeOK'
  BY DEF IInv, TypeOK, Location, WorkShape
<1>2. ControlInv'
  BY DEF IInv, ControlInv, Destroying, Creating, UsesSession
<1>3. WorkInv'
  BY DEF IInv, TypeOK, WorkShape, WorkInv, Destroying
<1>4. ImageInv'
  BY DEF IInv, ImageInv, HoldsImage
<1>5. SessionInv'
  BY DEF IInv, ControlInv, Destroying, SessionInv, Objects, Renders, Surfaces
<1>6. LedgerExact'
  BY NoneIsNothing DEF IInv, TypeOK, WorkShape, ControlInv, Destroying, WorkInv, LedgerExact, Live, Held
<1> QED
  BY <1>1, <1>2, <1>3, <1>4, <1>5, <1>6 DEF IInv

LEMMA DestroySurfacesIInv == IInv /\ DestroySurfaces => IInv'
<1> SUFFICES ASSUME IInv, DestroySurfaces PROVE IInv'
  OBVIOUS
<1> USE NoneIsNothing DEF IInv, DestroySurfaces
<1>1. /\ session = None /\ session' = None
      /\ work' \in WorkShape
      /\ work'.config = work.config /\ work'.context = work.context
      /\ work'.decode = None /\ work'.display = None
  BY DEF ControlInv, Destroying, TypeOK, WorkShape
<1>2. surface' \in [Id -> SurfaceShape \cup {None}]
  BY DEF TypeOK
<1>3. jobs' \in Seq(JobShape)
  <2>1. jobs' = <<>>
    OBVIOUS
  <2> QED
    BY <2>1, Z3
<1>4. TypeOK'
  BY <1>1, <1>2, <1>3 DEF TypeOK, Location
<1>5. ControlInv'
  BY <1>1 DEF ControlInv, Destroying, Creating, UsesSession
<1>6. WorkInv'
  BY <1>1 DEF WorkInv, Destroying
<1>7. ImageInv'
  BY DEF ImageInv, HoldsImage
<1>8. SessionInv'
  BY <1>1 DEF SessionInv
<1>9. LedgerExact'
  <2>1. Live(surface) = Surfaces(work)
    BY <1>1 DEF LedgerExact, Held, Surfaces
  <2>2. Live(surface') = {}
    BY <2>1 DEF Live
  <2>3. Held("decode")' = {} /\ Held("display")' = {}
    BY <1>1 DEF Held
  <2> QED
    BY <1>1, <2>2, <2>3 DEF LedgerExact, Live, Held
<1> QED
  BY <1>4, <1>5, <1>6, <1>7, <1>8, <1>9

LEMMA DestroyConfigIInv == IInv /\ DestroyConfig => IInv'
<1> SUFFICES ASSUME IInv, DestroyConfig PROVE IInv'
  OBVIOUS
<1> USE NoneIsNothing DEF DestroyConfig, driverVars, localVars, IInv
<1>1. TypeOK'
  BY ErrorType, KeyType DEF TypeOK, Location, WorkShape, Fail
<1>2. ControlInv'
  BY DEF ControlInv, Destroying, Creating, UsesSession, HoldsImage
<1>3. WorkInv'
  BY DEF TypeOK, WorkShape, WorkInv, Destroying, Creating, ControlInv, NoWork
<1>4. ImageInv'
  BY DEF TypeOK, ImageInv, HoldsImage, ReadFrom
<1>5. SessionInv'
  BY DEF TypeOK, ControlInv, Destroying, UsesSession, Creating, SessionInv, Objects, Renders, Surfaces
<1>6. LedgerExact'
  BY DEF TypeOK, WorkShape, ControlInv, Destroying, Creating, UsesSession, HoldsImage, WorkInv, ImageInv, LedgerExact, Live, Held
<1> QED
  BY <1>1, <1>2, <1>3, <1>4, <1>5, <1>6 DEF IInv

LEMMA CreateConfigIInv == IInv /\ CreateConfig => IInv'
<1> SUFFICES ASSUME IInv, CreateConfig PROVE IInv'
  OBVIOUS
<1> USE NoneIsNothing DEF IInv, CreateConfig
<1>1. /\ session = None /\ session' = None /\ work = NoWork
      /\ pc = "createConfig" /\ req \in Request
  BY DEF ControlInv, WorkInv, Destroying, Creating
<1>2. ASSUME NEW i \in Free(config),
             config' = [config EXCEPT ![i] = KeyOf(req).profile],
             work' = [work EXCEPT !.config = i],
             pc' = "createSurfaces", UNCHANGED outcome
      PROVE IInv'
  <2>1. i \in Id /\ config[i] = None
    BY <1>2 DEF Free
  <2>2. /\ work' \in WorkShape /\ work'.config = i
        /\ work'.context = None /\ work'.decode = None /\ work'.display = None
    BY <1>1, <1>2, <2>1 DEF NoWork, WorkShape
  <2>3. KeyOf(req).profile \in Profile
    BY <1>1, KeyType DEF Key
  <2>4. TypeOK'
    BY <1>1, <1>2, <2>1, <2>2, <2>3 DEF TypeOK, Location
  <2>5. ControlInv'
    BY <1>1, <1>2 DEF ControlInv, Destroying, Creating, UsesSession
  <2>6. WorkInv'
    BY <1>2, <2>1, <2>2 DEF WorkInv, Destroying
  <2>7. ImageInv'
    BY <1>1, <1>2 DEF ImageInv, HoldsImage
  <2>8. config'[i] = KeyOf(req).profile
    BY <1>2, <2>1 DEF TypeOK
  <2>9. SessionInv'
    BY <1>1, <1>2, <2>2, <2>8 DEF SessionInv
  <2>10. LedgerExact'
    <3>1. Live(config) = {}
      BY <1>1 DEF LedgerExact, Held, NoWork
    <3>2. Live(config') = {i}
      BY <1>2, <2>1, <2>3, <3>1 DEF Live, TypeOK
    <3> QED
      BY <1>1, <2>2, <3>2 DEF LedgerExact, Live, Held, NoWork
  <2> QED
    BY <2>4, <2>5, <2>6, <2>7, <2>9, <2>10
<1>3. CASE Fail("decode") /\ pc' = "return" /\ UNCHANGED <<config, work>>
  <2>1. TypeOK'
    BY <1>3, ErrorType DEF TypeOK, Location, Fail
  <2>2. ControlInv'
    BY <1>1, <1>3 DEF ControlInv, Destroying, Creating, UsesSession
  <2>3. WorkInv'
    BY <1>1, <1>3 DEF WorkInv, Destroying, NoWork
  <2>4. ImageInv'
    BY <1>1, <1>3 DEF ImageInv, HoldsImage
  <2>5. SessionInv'
    BY <1>1, <1>3 DEF SessionInv
  <2>6. LedgerExact'
    BY <1>1, <1>3 DEF LedgerExact, Live, Held
  <2> QED
    BY <2>1, <2>2, <2>3, <2>4, <2>5, <2>6
<1> QED
  BY <1>2, <1>3

LEMMA CreateSurfacesIInv == IInv /\ CreateSurfaces => IInv'
<1> SUFFICES ASSUME IInv, CreateSurfaces PROVE IInv'
  OBVIOUS
<1> USE NoneIsNothing DEF IInv, CreateSurfaces
<1>1. /\ session = None /\ session' = None
      /\ pc = "createSurfaces" /\ req \in Request /\ KeyOf(req) \in Key
      /\ work \in WorkShape /\ work.config \in Id
      /\ work.context = None /\ work.decode = None /\ work.display = None
  BY KeyType DEF ControlInv, WorkInv, Destroying, Creating, TypeOK
<1>2. ASSUME NEW i \in Free(surface), NEW j \in Free(surface) \cup {None}, i # j,
             (j # None) <=> (KeyOf(req).surfaces = 2),
             surface' = [s \in Id |-> IF s \in {i, j}
               THEN [size |-> KeyOf(req).size, fourcc |-> KeyOf(req).fourcc, holds |-> None]
               ELSE surface[s]],
             work' = [work EXCEPT !.decode = i, !.display = j],
             pc' = "createContext", UNCHANGED outcome
      PROVE IInv'
  <2>1. i \in Id /\ j \in Id \cup {None}
    BY <1>2 DEF Free
  <2>2. /\ work' \in WorkShape /\ work'.config = work.config
        /\ work'.context = None /\ work'.decode = i /\ work'.display = j
    BY <1>1, <1>2, <2>1 DEF WorkShape
  <2> DEFINE blank == [size |-> KeyOf(req).size, fourcc |-> KeyOf(req).fourcc, holds |-> None]
  <2>3. blank \in SurfaceShape
    BY <1>1 DEF SurfaceShape, Key
  <2>4. surface' \in [Id -> SurfaceShape \cup {None}]
    BY <1>2, <2>3 DEF TypeOK
  <2>5. TypeOK'
    BY <1>1, <1>2, <2>2, <2>4 DEF TypeOK, Location
  <2>6. ControlInv'
    BY <1>1, <1>2 DEF ControlInv, Destroying, Creating, UsesSession
  <2>7. WorkInv'
    BY <1>1, <1>2, <2>1, <2>2 DEF WorkInv, Destroying
  <2>8. ImageInv'
    BY <1>1, <1>2 DEF ImageInv, HoldsImage
  <2>9. Surfaces(work') = {i, j} \ {None}
    BY <2>2 DEF Surfaces
  <2>10. Objects(work, KeyOf(req))'
    <3>1. config'[work'.config] = KeyOf(req).profile
      BY <1>1, <1>2, <2>2 DEF SessionInv
    <3>2. \A s \in {i, j} \ {None} : surface'[s] = blank
      BY <1>2, <2>1
    <3>3. req' = req
      OBVIOUS
    <3>4. KeyOf(req)' = KeyOf(req)
      BY <3>3
    <3>5. \A s \in Surfaces(work') :
            surface'[s].size = KeyOf(req).size /\ surface'[s].fourcc = KeyOf(req).fourcc
      <4> SUFFICES ASSUME NEW s \in {i, j} \ {None}
                   PROVE  surface'[s].size = KeyOf(req).size
                          /\ surface'[s].fourcc = KeyOf(req).fourcc
        BY <2>9
      <4>1. surface'[s] = blank
        BY <3>2
      <4>2. blank.size = KeyOf(req).size /\ blank.fourcc = KeyOf(req).fourcc
        OBVIOUS
      <4> HIDE DEF blank
      <4> QED
        BY <4>1, <4>2
    <3> QED
      BY <1>2, <2>1, <2>2, <3>1, <3>4, <3>5 DEF Objects, Surfaces
  <2>11. SessionInv'
    BY <1>1, <1>2, <2>10 DEF SessionInv
  <2>12. LedgerExact'
    <3>1. Live(surface) = {}
      BY <1>1 DEF LedgerExact, Held
    <3>2. Live(surface') = {i, j} \ {None}
      BY <1>2, <2>1, <2>3, <3>1 DEF Live
    <3>3. /\ Held("config")' = {work.config} /\ Held("context")' = {}
          /\ Held("decode")' = {i} /\ Held("display")' = {j} \ {None}
      BY <1>1, <2>1, <2>2 DEF Held
    <3>4. Live(config) = {work.config} /\ Live(context) = {}
      BY <1>1 DEF LedgerExact, Held
    <3>5. Live(config') = {work.config} /\ Live(context') = {} /\ Live(image') = Live(image)
      BY <3>4
    <3>6. Held("decode")' \cup Held("display")' = {i, j} \ {None}
      BY <2>1, <3>3
    <3> QED
      BY <3>2, <3>3, <3>5, <3>6 DEF LedgerExact
  <2> QED
    BY <2>5, <2>6, <2>7, <2>8, <2>11, <2>12
<1>3. CASE Fail("decode") /\ pc' = "destroyConfig" /\ UNCHANGED <<surface, work>>
  <2>1. TypeOK'
    BY <1>3, ErrorType DEF TypeOK, Location, Fail
  <2>2. ControlInv'
    BY <1>1, <1>3 DEF ControlInv, Destroying, Creating, UsesSession
  <2>3. WorkInv'
    BY <1>1, <1>3 DEF WorkInv, Destroying
  <2>4. ImageInv'
    BY <1>1, <1>3 DEF ImageInv, HoldsImage
  <2>5. SessionInv'
    BY <1>1, <1>3 DEF SessionInv
  <2>6. LedgerExact'
    BY <1>1, <1>3 DEF LedgerExact, Live, Held
  <2> QED
    BY <2>1, <2>2, <2>3, <2>4, <2>5, <2>6
<1> QED
  BY <1>2, <1>3

LEMMA CreateContextIInv == IInv /\ CreateContext => IInv'
<1> SUFFICES ASSUME IInv, CreateContext PROVE IInv'
  OBVIOUS
<1> USE NoneIsNothing DEF IInv, CreateContext
<1>1. /\ session = None /\ pc = "createContext" /\ ~dropping
      /\ req \in Request /\ KeyOf(req) \in Key
      /\ work \in WorkShape /\ work.config \in Id /\ work.context = None
      /\ work.decode \in Id /\ work.decode # work.display
  BY KeyType DEF ControlInv, WorkInv, Destroying, Creating, TypeOK
<1>2. ASSUME NEW i \in Free(context),
             context' = [context EXCEPT ![i] =
               [config |-> work.config, targets |-> Surfaces(work),
                size |-> KeyOf(req).size, open |-> FALSE]],
             session' = [key |-> KeyOf(req), config |-> work.config, context |-> i,
                         decode |-> work.decode, display |-> work.display],
             work' = NoWork, pc' = "params", UNCHANGED outcome
      PROVE IInv'
  <2>1. i \in Id
    BY <1>2 DEF Free
  <2> DEFINE fresh == [config |-> work.config, targets |-> Surfaces(work),
                       size |-> KeyOf(req).size, open |-> FALSE]
  <2>2. fresh \in ContextShape
    BY <1>1 DEF ContextShape, Key, Surfaces, WorkShape
  <2>3. /\ context' \in [Id -> ContextShape \cup {None}]
        /\ context'[i] = fresh
        /\ \A c \in Id \ {i} : context'[c] = context[c]
    BY <1>2, <2>1, <2>2 DEF TypeOK
  <2>4. /\ session' \in SessionShape /\ session'.key = KeyOf(req)
        /\ session'.config = work.config /\ session'.context = i
        /\ session'.decode = work.decode /\ session'.display = work.display
    BY <1>1, <1>2, <2>1 DEF SessionShape, WorkShape
  <2>5. work' \in WorkShape
    BY <1>2 DEF WorkShape, NoWork
  <2>6. TypeOK'
    BY <1>1, <1>2, <2>3, <2>4, <2>5 DEF TypeOK, Location
  <2>7. ControlInv'
    BY <1>1, <1>2, <2>4 DEF ControlInv, Destroying, Creating, UsesSession
  <2>8. WorkInv'
    BY <1>2 DEF WorkInv, Destroying, NoWork
  <2>9. ImageInv'
    BY <1>1, <1>2 DEF ImageInv, HoldsImage
  <2>10. Objects(session, session.key)'
    BY <1>1, <1>2, <2>4 DEF SessionInv, Objects, Surfaces
  <2>11. Renders(session.context, session)'
    BY <2>3, <2>4 DEF Renders, Surfaces
  <2>12. SessionInv'
    BY <1>2, <2>3, <2>4, <2>10, <2>11 DEF SessionInv
  <2>13. LedgerExact'
    <3>1. Live(context) = {}
      BY <1>1 DEF LedgerExact, Held
    <3>2. Live(context') = {i}
      BY <2>1, <2>2, <2>3, <3>1 DEF Live
    <3>3. session' # None
      BY <2>4
    <3>4. /\ Held("config")' = {work.config} /\ Held("context")' = {i}
          /\ Held("decode")' = {work.decode} /\ Held("display")' = {work.display} \ {None}
      BY <1>1, <1>2, <2>1, <2>4, <3>3 DEF Held, NoWork
    <3>5. Live(config) = {work.config} /\ Live(surface) = {work.decode, work.display} \ {None}
      BY <1>1 DEF LedgerExact, Held
    <3> QED
      BY <1>1, <1>2, <3>2, <3>4, <3>5 DEF LedgerExact, Live
  <2> QED
    BY <2>6, <2>7, <2>8, <2>9, <2>12, <2>13
<1>3. CASE Fail("decode") /\ pc' = "destroySurfaces" /\ UNCHANGED <<context, session, work>>
  <2>1. TypeOK'
    BY <1>3, ErrorType DEF TypeOK, Location, Fail
  <2>2. ControlInv'
    BY <1>1, <1>3 DEF ControlInv, Destroying, Creating, UsesSession
  <2>3. WorkInv'
    BY <1>1, <1>3 DEF WorkInv, Destroying
  <2>4. ImageInv'
    BY <1>1, <1>3 DEF ImageInv, HoldsImage
  <2>5. SessionInv'
    BY <1>1, <1>3 DEF SessionInv
  <2>6. LedgerExact'
    BY <1>1, <1>3 DEF LedgerExact, Live, Held
  <2> QED
    BY <2>1, <2>2, <2>3, <2>4, <2>5, <2>6
<1> QED
  BY <1>2, <1>3

LEMMA BuildParamsIInv == IInv /\ BuildParams => IInv'
<1> SUFFICES ASSUME IInv, BuildParams PROVE IInv'
  OBVIOUS
<1> USE NoneIsNothing DEF IInv, BuildParams, driverVars
<1>1. req \in Request
  BY DEF ControlInv, UsesSession, Destroying
<1>2. BufferCount(req) \in Nat
  BY <1>1, RequestAssumption DEF BufferCount, RequestShape
<1>3. TypeOK'
  BY <1>2, ErrorType DEF TypeOK, Location, Fail
<1>4. ControlInv'
  BY DEF ControlInv, Destroying, Creating, UsesSession
<1>5. WorkInv'
  BY DEF WorkInv, Destroying, NoWork
<1>6. ImageInv'
  BY DEF ImageInv, HoldsImage
<1>7. SessionInv'
  BY DEF SessionInv, Objects, Renders, Surfaces
<1>8. LedgerExact'
  BY DEF LedgerExact, Live, Held
<1> QED
  BY <1>3, <1>4, <1>5, <1>6, <1>7, <1>8

LEMMA PushBufferIInv == IInv /\ PushBuffer => IInv'
<1> SUFFICES ASSUME IInv, PushBuffer PROVE IInv'
  OBVIOUS
<1> USE NoneIsNothing DEF PushBuffer, driverVars, localVars, IInv
<1>1. TypeOK'
  BY ErrorType, KeyType DEF TypeOK, Location, WorkShape, Fail
<1>2. ControlInv'
  BY DEF ControlInv, Destroying, Creating, UsesSession, HoldsImage
<1>3. WorkInv'
  BY DEF TypeOK, WorkShape, WorkInv, Destroying, Creating, ControlInv, NoWork
<1>4. ImageInv'
  BY DEF TypeOK, ImageInv, HoldsImage, ReadFrom
<1>5. SessionInv'
  BY DEF TypeOK, ControlInv, Destroying, UsesSession, Creating, SessionInv, Objects, Renders, Surfaces
<1>6. LedgerExact'
  BY DEF TypeOK, WorkShape, ControlInv, Destroying, Creating, UsesSession, HoldsImage, WorkInv, ImageInv, LedgerExact, Live, Held
<1> QED
  BY <1>1, <1>2, <1>3, <1>4, <1>5, <1>6 DEF IInv

(* During a call the session names live objects of the driver.             *)
LEMMA SessionObjects ==
  ASSUME IInv, session # None
  PROVE  /\ session \in SessionShape
         /\ session.context \in Id /\ context[session.context] \in ContextShape
         /\ session.decode \in Id /\ surface[session.decode] \in SurfaceShape
         /\ session.display # None =>
              session.display \in Id /\ surface[session.display] \in SurfaceShape
<1> USE NoneIsNothing DEF IInv
<1>1. session \in SessionShape
  BY DEF TypeOK
<1>2. /\ session.context \in Id /\ session.decode \in Id
      /\ session.display \in Id \cup {None}
  BY <1>1 DEF SessionShape
<1>3. session.context \in Live(context)
  BY <1>2 DEF LedgerExact, Held
<1>4. session.decode \in Live(surface)
  BY <1>2 DEF LedgerExact, Held
<1>5. session.display # None => session.display \in Live(surface)
  BY <1>2 DEF LedgerExact, Held
<1> QED
  BY <1>1, <1>2, <1>3, <1>4, <1>5 DEF Live, TypeOK

(* Opening or closing the picture of the session's context disturbs no     *)
(* part of the invariant but the type of the context.                      *)
LEMMA PictureFlag ==
  ASSUME IInv, session # None, NEW b \in BOOLEAN,
         context' = [context EXCEPT ![session.context].open = b]
  PROVE  /\ context' \in [Id -> ContextShape \cup {None}]
         /\ Live(context') = Live(context)
         /\ context'[session.context].config = context[session.context].config
         /\ context'[session.context].targets = context[session.context].targets
         /\ context'[session.context].size = context[session.context].size
<1> DEFINE c == session.context
           x == [context[c] EXCEPT !.open = b]
<1>1. c \in Id /\ context[c] \in ContextShape
  BY SessionObjects
<1>2. /\ x \in ContextShape /\ x.config = context[c].config
      /\ x.targets = context[c].targets /\ x.size = context[c].size
  BY <1>1 DEF ContextShape
<1>3. context' = [context EXCEPT ![c] = x] /\ context \in [Id -> ContextShape \cup {None}]
  BY DEF IInv, TypeOK
<1> HIDE DEF c, x
<1>4. /\ context' \in [Id -> ContextShape \cup {None}] /\ context'[c] = x
      /\ \A i \in Id \ {c} : context'[i] = context[i]
  BY <1>1, <1>2, <1>3
<1>5. Live(context') = Live(context)
  BY <1>1, <1>2, <1>4, NoneIsNothing DEF Live
<1> QED
  BY <1>2, <1>4, <1>5 DEF c

LEMMA BeginPictureIInv == IInv /\ BeginPicture => IInv'
<1> SUFFICES ASSUME IInv, BeginPicture PROVE IInv'
  OBVIOUS
<1> USE NoneIsNothing DEF IInv
<1>1. /\ pc = "push" /\ session # None /\ session' = session
      /\ pc' \in {"render", "release"}
      /\ UNCHANGED <<config, surface, buffer, image, mapped, jobs,
                     dropping, req, work, left, queue, img>>
  BY DEF BeginPicture, ControlInv, UsesSession
<1>2. outcome' \in Reply \cup {None}
  BY ErrorType DEF BeginPicture, Fail, TypeOK
<1>3. /\ context' \in [Id -> ContextShape \cup {None}]
      /\ Live(context') = Live(context)
      /\ context'[session.context].config = context[session.context].config
      /\ context'[session.context].targets = context[session.context].targets
      /\ context'[session.context].size = context[session.context].size
  <2>1. CASE context' = [context EXCEPT ![session.context].open = TRUE]
    BY <1>1, <2>1, PictureFlag, Zenon
  <2>2. CASE UNCHANGED context
    BY <2>2 DEF TypeOK
  <2> QED
    BY <2>1, <2>2 DEF BeginPicture
<1>4. TypeOK'
  BY <1>1, <1>2, <1>3 DEF TypeOK, Location
<1>5. ControlInv'
  BY <1>1 DEF ControlInv, Destroying, Creating, UsesSession, KeyOf
<1>6. WorkInv'
  BY <1>1 DEF WorkInv, Destroying, NoWork
<1>7. ImageInv'
  BY <1>1 DEF ImageInv, HoldsImage
<1>8. SessionInv'
  BY <1>1, <1>3 DEF SessionInv, Objects, Renders, Surfaces
<1>9. LedgerExact'
  <2>1. Live(config') = Live(config) /\ Live(surface') = Live(surface) /\ Live(image') = Live(image)
    BY <1>1 DEF Live
  <2>2. \A part \in {"config", "context", "decode", "display"} : Held(part)' = Held(part)
    BY <1>1 DEF Held
  <2> QED
    BY <1>1, <1>3, <2>1, <2>2 DEF LedgerExact
<1> QED
  BY <1>4, <1>5, <1>6, <1>7, <1>8, <1>9

LEMMA RenderPictureIInv == IInv /\ RenderPicture => IInv'
<1> SUFFICES ASSUME IInv, RenderPicture PROVE IInv'
  OBVIOUS
<1> USE NoneIsNothing DEF RenderPicture, driverVars, localVars, IInv
<1>1. TypeOK'
  BY ErrorType, KeyType DEF TypeOK, Location, WorkShape, Fail
<1>2. ControlInv'
  BY DEF ControlInv, Destroying, Creating, UsesSession, HoldsImage
<1>3. WorkInv'
  BY DEF TypeOK, WorkShape, WorkInv, Destroying, Creating, ControlInv, NoWork
<1>4. ImageInv'
  BY DEF TypeOK, ImageInv, HoldsImage, ReadFrom
<1>5. SessionInv'
  BY DEF TypeOK, ControlInv, Destroying, UsesSession, Creating, SessionInv, Objects, Renders, Surfaces
<1>6. LedgerExact'
  BY DEF TypeOK, WorkShape, ControlInv, Destroying, Creating, UsesSession, HoldsImage, WorkInv, ImageInv, LedgerExact, Live, Held
<1> QED
  BY <1>1, <1>2, <1>3, <1>4, <1>5, <1>6 DEF IInv

LEMMA EndPictureIInv == IInv /\ EndPicture => IInv'
<1> SUFFICES ASSUME IInv, EndPicture PROVE IInv'
  OBVIOUS
<1> USE NoneIsNothing DEF IInv
<1>1. /\ pc = "end" /\ session # None /\ session' = session
      /\ pc' = "release" /\ req \in Request
      /\ UNCHANGED <<config, surface, buffer, image, mapped,
                     dropping, req, work, left, queue, img>>
  BY DEF EndPicture, ControlInv, UsesSession, Destroying
<1>2. outcome' \in Reply \cup {None}
  BY ErrorType DEF EndPicture, Fail, TypeOK
<1>3. /\ context' \in [Id -> ContextShape \cup {None}]
      /\ Live(context') = Live(context)
      /\ context'[session.context].config = context[session.context].config
      /\ context'[session.context].targets = context[session.context].targets
      /\ context'[session.context].size = context[session.context].size
  BY <1>1, PictureFlag, Zenon DEF EndPicture
<1>4. jobs' \in Seq(JobShape)
  <2> DEFINE j == [of |-> req, decode |-> session.decode, display |-> session.display]
  <2>1. j \in JobShape
    BY <1>1, SessionObjects DEF JobShape, SessionShape
  <2>2. jobs \in Seq(JobShape)
    BY DEF TypeOK
  <2> HIDE DEF j
  <2>3. Append(jobs, j) \in Seq(JobShape)
    BY <2>1, <2>2
  <2> QED
    BY <2>2, <2>3 DEF EndPicture, j
<1>5. TypeOK'
  BY <1>1, <1>2, <1>3, <1>4 DEF TypeOK, Location
<1>6. ControlInv'
  BY <1>1 DEF ControlInv, Destroying, Creating, UsesSession, KeyOf
<1>7. WorkInv'
  BY <1>1 DEF WorkInv, Destroying, NoWork
<1>8. ImageInv'
  BY <1>1 DEF ImageInv, HoldsImage
<1>9. SessionInv'
  BY <1>1, <1>3 DEF SessionInv, Objects, Renders, Surfaces
<1>10. LedgerExact'
  <2>1. Live(config') = Live(config) /\ Live(surface') = Live(surface) /\ Live(image') = Live(image)
    BY <1>1 DEF Live
  <2>2. \A part \in {"config", "context", "decode", "display"} : Held(part)' = Held(part)
    BY <1>1 DEF Held
  <2> QED
    BY <1>1, <1>3, <2>1, <2>2 DEF LedgerExact
<1> QED
  BY <1>5, <1>6, <1>7, <1>8, <1>9, <1>10

LEMMA DestroyBufferIInv == IInv /\ DestroyBuffer => IInv'
<1> SUFFICES ASSUME IInv, DestroyBuffer PROVE IInv'
  OBVIOUS
<1> USE NoneIsNothing DEF DestroyBuffer, driverVars, localVars, IInv
<1>1. TypeOK'
  BY ErrorType, KeyType DEF TypeOK, Location, WorkShape, Fail
<1>2. ControlInv'
  BY DEF ControlInv, Destroying, Creating, UsesSession, HoldsImage
<1>3. WorkInv'
  BY DEF TypeOK, WorkShape, WorkInv, Destroying, Creating, ControlInv, NoWork
<1>4. ImageInv'
  BY DEF TypeOK, ImageInv, HoldsImage, ReadFrom
<1>5. SessionInv'
  BY DEF TypeOK, ControlInv, Destroying, UsesSession, Creating, SessionInv, Objects, Renders, Surfaces
<1>6. LedgerExact'
  BY DEF TypeOK, WorkShape, ControlInv, Destroying, Creating, UsesSession, HoldsImage, WorkInv, ImageInv, LedgerExact, Live, Held
<1> QED
  BY <1>1, <1>2, <1>3, <1>4, <1>5, <1>6 DEF IInv

LEMMA BuffersDestroyedIInv == IInv /\ BuffersDestroyed => IInv'
<1> SUFFICES ASSUME IInv, BuffersDestroyed PROVE IInv'
  OBVIOUS
<1> USE NoneIsNothing DEF BuffersDestroyed, driverVars, localVars, IInv
<1>1. TypeOK'
  BY ErrorType, KeyType DEF TypeOK, Location, WorkShape, Fail
<1>2. ControlInv'
  BY DEF ControlInv, Destroying, Creating, UsesSession, HoldsImage
<1>3. WorkInv'
  BY DEF TypeOK, WorkShape, WorkInv, Destroying, Creating, ControlInv, NoWork
<1>4. ImageInv'
  BY DEF TypeOK, ImageInv, HoldsImage, ReadFrom
<1>5. SessionInv'
  BY DEF TypeOK, ControlInv, Destroying, UsesSession, Creating, SessionInv, Objects, Renders, Surfaces
<1>6. LedgerExact'
  BY DEF TypeOK, WorkShape, ControlInv, Destroying, Creating, UsesSession, HoldsImage, WorkInv, ImageInv, LedgerExact, Live, Held
<1> QED
  BY <1>1, <1>2, <1>3, <1>4, <1>5, <1>6 DEF IInv

LEMMA SyncSurfaceIInv == IInv /\ SyncSurface => IInv'
<1> SUFFICES ASSUME IInv, SyncSurface PROVE IInv'
  OBVIOUS
<1> USE NoneIsNothing DEF SyncSurface, driverVars, localVars, IInv
<1>1. TypeOK'
  BY ErrorType, KeyType DEF TypeOK, Location, WorkShape, Fail
<1>2. ControlInv'
  BY DEF ControlInv, Destroying, Creating, UsesSession, HoldsImage
<1>3. WorkInv'
  BY DEF TypeOK, WorkShape, WorkInv, Destroying, Creating, ControlInv, NoWork
<1>4. ImageInv'
  BY DEF TypeOK, ImageInv, HoldsImage, ReadFrom
<1>5. SessionInv'
  BY DEF TypeOK, ControlInv, Destroying, UsesSession, Creating, SessionInv, Objects, Renders, Surfaces
<1>6. LedgerExact'
  BY DEF TypeOK, WorkShape, ControlInv, Destroying, Creating, UsesSession, HoldsImage, WorkInv, ImageInv, LedgerExact, Live, Held
<1> QED
  BY <1>1, <1>2, <1>3, <1>4, <1>5, <1>6 DEF IInv

LEMMA GpuFinishesIInv == IInv /\ GpuFinishes => IInv'
<1> SUFFICES ASSUME IInv, GpuFinishes PROVE IInv'
  OBVIOUS
<1> USE NoneIsNothing DEF IInv
<1>1. UNCHANGED <<config, context, buffer, image, mapped, pc, session, dropping, localVars>>
  BY DEF GpuFinishes
<1>2. jobs \in Seq(JobShape) /\ jobs # <<>> /\ jobs' = Tail(jobs)
  BY DEF GpuFinishes, TypeOK
<1>3. jobs' \in Seq(JobShape) /\ Head(jobs) \in JobShape
  BY <1>2
<1> DEFINE j == Head(jobs)
           finished(i) == [surface[i] EXCEPT !.holds = Holding(j, i)]
<1>4. surface' = [i \in Id |->
        IF i \in Surfaces(j) /\ surface[i] # None THEN finished(i) ELSE surface[i]]
  BY DEF GpuFinishes
<1>5. ASSUME NEW i \in Id, surface[i] # None
      PROVE  /\ finished(i) \in SurfaceShape
             /\ finished(i).size = surface[i].size
             /\ finished(i).fourcc = surface[i].fourcc
  <2>1. surface[i] \in SurfaceShape
    BY <1>5 DEF TypeOK
  <2>2. Holding(j, i) \in Picture
    BY <1>3 DEF Holding, Picture, JobShape
  <2> QED
    BY <2>1, <2>2 DEF SurfaceShape
<1> HIDE DEF finished, j
<1>6. /\ surface' \in [Id -> SurfaceShape \cup {None}]
      /\ \A i \in Id : /\ surface[i] = None <=> surface'[i] = None
                       /\ surface[i] # None => /\ surface'[i].size = surface[i].size
                                               /\ surface'[i].fourcc = surface[i].fourcc
  BY <1>4, <1>5 DEF TypeOK
<1>7. TypeOK'
  BY <1>1, <1>3, <1>6 DEF TypeOK, localVars
<1>8. ControlInv'
  BY <1>1 DEF ControlInv, localVars, KeyOf
<1>9. WorkInv'
  BY <1>1 DEF WorkInv, localVars, NoWork
<1>10. ImageInv'
  BY <1>1 DEF ImageInv, localVars, ReadFrom
<1>11. ASSUME NEW w, NEW key, Objects(w, key), Surfaces(w) \subseteq Live(surface)
       PROVE  /\ config'[w.config] = key.profile
              /\ \A i \in Surfaces(w) : surface'[i].size = key.size /\ surface'[i].fourcc = key.fourcc
              /\ w.decode # w.display
              /\ w.display # None <=> key.surfaces = 2
  BY <1>1, <1>6, <1>11 DEF Objects, Live
<1>12. SessionInv'
  <2>1. session # None => Objects(session, session.key)'
    <3> SUFFICES ASSUME session # None PROVE Objects(session, session.key)'
      BY <1>1
    <3>1. Surfaces(session) \subseteq Live(surface)
      BY DEF LedgerExact, Held, Surfaces
    <3>2. Objects(session, session.key) /\ session' = session
      BY <1>1 DEF SessionInv
    <3> QED
      BY <1>11, <3>1, <3>2 DEF Objects, Surfaces
  <2>2. pc = "createContext" => Objects(work, KeyOf(req))'
    <3> SUFFICES ASSUME pc = "createContext" PROVE Objects(work, KeyOf(req))'
      BY <1>1
    <3>1. Surfaces(work) \subseteq Live(surface)
      BY DEF LedgerExact, Held, Surfaces
    <3>2. Objects(work, KeyOf(req)) /\ work' = work /\ req' = req
      BY <1>1 DEF SessionInv, localVars
    <3>3. KeyOf(req)' = KeyOf(req)
      BY <3>2
    <3> QED
      BY <1>11, <3>1, <3>2, <3>3 DEF Objects, Surfaces
  <2> QED
    BY <1>1, <2>1, <2>2 DEF SessionInv, Renders, Surfaces, localVars, KeyOf
<1>13. LedgerExact'
  <2>1. Live(surface') = Live(surface)
    BY <1>6 DEF Live
  <2>2. Live(config') = Live(config) /\ Live(context') = Live(context) /\ Live(image') = Live(image)
    BY <1>1 DEF Live
  <2>3. \A part \in {"config", "context", "decode", "display"} : Held(part)' = Held(part)
    BY <1>1 DEF Held, localVars
  <2> QED
    BY <1>1, <2>1, <2>2, <2>3 DEF LedgerExact, localVars
<1> QED
  BY <1>7, <1>8, <1>9, <1>10, <1>12, <1>13

(* A new image, whatever its layout, is typed, and is the only one alive.  *)
LEMMA NewImage ==
  ASSUME IInv, img = None, NEW i \in Free(image), NEW x \in ImageShape,
         image' = [image EXCEPT ![i] = x]
  PROVE  /\ i \in Id /\ image' \in [Id -> ImageShape \cup {None}]
         /\ image'[i] = x /\ Live(image') = {i}
<1> USE NoneIsNothing DEF IInv
<1>1. i \in Id /\ image \in [Id -> ImageShape \cup {None}]
  BY DEF Free, TypeOK
<1>2. Live(image) = {}
  BY DEF LedgerExact
<1> QED
  BY <1>1, <1>2 DEF Live

LEMMA DeriveImageIInv == IInv /\ DeriveImage => IInv'
<1> SUFFICES ASSUME IInv, DeriveImage PROVE IInv'
  OBVIOUS
<1> USE NoneIsNothing DEF IInv
<1>1. /\ pc = "derive" /\ img = None /\ session # None /\ mapped = {}
      /\ UNCHANGED <<config, surface, context, buffer, mapped, jobs,
                     session, dropping, req, work, left, queue, outcome>>
  BY DEF DeriveImage, ControlInv, UsesSession, ImageInv, HoldsImage
<1>2. /\ pc' \in {"map", "dropDerived", "createImage"}
      /\ img' \in Id \cup {None}
      /\ img' # None <=> pc' # "createImage"
      /\ image' \in [Id -> ImageShape \cup {None}]
      /\ Live(image') = {img'} \ {None}
      /\ img' # None => image'[img'].source \in {None, ReadFrom}
  <2>1. ASSUME NEW i \in Free(image), NEW f \in Fourcc \cup {None},
               image' = [image EXCEPT ![i] =
                 [fourcc |-> f, source |-> ReadFrom, copied |-> None]],
               img' = i,
               pc' = IF f = KeyOf(req).fourcc THEN "map" ELSE "dropDerived"
        PROVE  <1>2!:
    <3>1. ReadFrom \in Id \cup {None}
      BY <1>1, SessionObjects DEF ReadFrom, SessionShape
    <3>2. [fourcc |-> f, source |-> ReadFrom, copied |-> None] \in ImageShape
      BY <3>1 DEF ImageShape
    <3>3. image'[i].source = ReadFrom
      BY <1>1, <2>1, <3>2, NewImage
    <3> QED
      BY <1>1, <2>1, <3>2, <3>3, NewImage
  <2>2. CASE pc' = "createImage" /\ UNCHANGED <<image, img>>
    BY <1>1, <2>2 DEF TypeOK, LedgerExact, Live
  <2> QED
    BY <2>1, <2>2 DEF DeriveImage
<1>3. TypeOK'
  BY <1>1, <1>2 DEF TypeOK, Location
<1>4. ControlInv'
  BY <1>1, <1>2 DEF ControlInv, Destroying, Creating, UsesSession, KeyOf
<1>5. WorkInv'
  BY <1>1, <1>2 DEF WorkInv, Destroying, NoWork
<1>6. ImageInv'
  BY <1>1, <1>2 DEF ImageInv, HoldsImage, ReadFrom
<1>7. SessionInv'
  BY <1>1, <1>2 DEF SessionInv, Objects, Renders, Surfaces
<1>8. LedgerExact'
  BY <1>1, <1>2 DEF LedgerExact, Live, Held
<1> QED
  BY <1>3, <1>4, <1>5, <1>6, <1>7, <1>8

LEMMA DropDerivedIInv == IInv /\ DropDerived => IInv'
<1> SUFFICES ASSUME IInv, DropDerived PROVE IInv'
  OBVIOUS
<1> USE NoneIsNothing DEF DropDerived, driverVars, localVars, IInv
<1>1. TypeOK'
  BY ErrorType, KeyType DEF TypeOK, Location, WorkShape, Fail
<1>2. ControlInv'
  BY DEF ControlInv, Destroying, Creating, UsesSession, HoldsImage
<1>3. WorkInv'
  BY DEF TypeOK, WorkShape, WorkInv, Destroying, Creating, ControlInv, NoWork
<1>4. ImageInv'
  BY DEF TypeOK, ImageInv, HoldsImage, ReadFrom
<1>5. SessionInv'
  BY DEF TypeOK, ControlInv, Destroying, UsesSession, Creating, SessionInv, Objects, Renders, Surfaces
<1>6. LedgerExact'
  BY DEF TypeOK, WorkShape, ControlInv, Destroying, Creating, UsesSession, HoldsImage, WorkInv, ImageInv, LedgerExact, Live, Held
<1> QED
  BY <1>1, <1>2, <1>3, <1>4, <1>5, <1>6 DEF IInv

LEMMA CreateImageIInv == IInv /\ CreateImage => IInv'
<1> SUFFICES ASSUME IInv, CreateImage PROVE IInv'
  OBVIOUS
<1> USE NoneIsNothing DEF IInv
<1>1. /\ pc = "createImage" /\ img = None /\ session # None /\ mapped = {}
      /\ UNCHANGED <<config, surface, context, buffer, mapped, jobs,
                     session, dropping, req, work, left, queue>>
  BY DEF CreateImage, ControlInv, UsesSession, ImageInv, HoldsImage
<1>2. /\ pc' \in {"getImage", "return"}
      /\ outcome' \in Reply \cup {None}
      /\ img' \in Id \cup {None}
      /\ img' # None <=> pc' = "getImage"
      /\ image' \in [Id -> ImageShape \cup {None}]
      /\ Live(image') = {img'} \ {None}
      /\ img' # None => image'[img'].source \in {None, ReadFrom}
  <2>1. ASSUME NEW i \in Free(image), NEW f \in Fourcc \cup {None},
               image' = [image EXCEPT ![i] =
                 [fourcc |-> f, source |-> None, copied |-> None]],
               img' = i, pc' = "getImage", UNCHANGED outcome
        PROVE  <1>2!:
    <3>1. [fourcc |-> f, source |-> None, copied |-> None] \in ImageShape
      BY DEF ImageShape
    <3>2. image'[i].source = None
      BY <1>1, <2>1, <3>1, NewImage
    <3>3. /\ i \in Id /\ image' \in [Id -> ImageShape \cup {None}]
          /\ Live(image') = {i}
      BY <1>1, <2>1, <3>1, NewImage
    <3>4. outcome' \in Reply \cup {None}
      BY <2>1 DEF TypeOK
    <3> QED
      BY <2>1, <3>2, <3>3, <3>4
  <2>2. CASE Fail("decode") /\ pc' = "return" /\ UNCHANGED <<image, img>>
    BY <1>1, <2>2, ErrorType DEF TypeOK, LedgerExact, Live, Fail
  <2> QED
    BY <2>1, <2>2 DEF CreateImage
<1>3. TypeOK'
  BY <1>1, <1>2 DEF TypeOK, Location
<1>4. ControlInv'
  BY <1>1, <1>2 DEF ControlInv, Destroying, Creating, UsesSession, KeyOf
<1>5. WorkInv'
  BY <1>1, <1>2 DEF WorkInv, Destroying, NoWork
<1>6. ImageInv'
  BY <1>1, <1>2 DEF ImageInv, HoldsImage, ReadFrom
<1>7. SessionInv'
  BY <1>1, <1>2 DEF SessionInv, Objects, Renders, Surfaces
<1>8. LedgerExact'
  BY <1>1, <1>2 DEF LedgerExact, Live, Held
<1> QED
  BY <1>3, <1>4, <1>5, <1>6, <1>7, <1>8

(* The surface read_surface reads is live.                                 *)
LEMMA ReadFromLive ==
  ASSUME IInv, pc \in UsesSession
  PROVE  /\ ReadFrom \in Id /\ surface[ReadFrom] \in SurfaceShape
         /\ surface[ReadFrom].holds \in Picture \cup {None}
<1>1. session # None /\ session.key = KeyOf(req) /\ Objects(session, session.key)
  BY DEF IInv, ControlInv, SessionInv
<1>2. req.grain => session.display # None
  BY <1>1 DEF Objects, KeyOf
<1>3. ReadFrom \in Id /\ surface[ReadFrom] \in SurfaceShape
  BY <1>1, <1>2, SessionObjects DEF ReadFrom
<1> QED
  BY <1>3 DEF SurfaceShape

(* During a read-back the image held is a live one.                        *)
LEMMA ImageHeld ==
  ASSUME IInv, pc \in HoldsImage
  PROVE  img \in Id /\ image[img] \in ImageShape /\ Live(image) = {img}
<1>1. img \in Id /\ Live(image) = {img}
  BY NoneIsNothing DEF IInv, TypeOK, ImageInv, LedgerExact
<1> QED
  BY <1>1 DEF IInv, TypeOK, Live

LEMMA GetImageIInv == IInv /\ GetImage => IInv'
<1> SUFFICES ASSUME IInv, GetImage PROVE IInv'
  OBVIOUS
<1> USE NoneIsNothing DEF IInv
<1>1. /\ pc = "getImage" /\ session # None /\ mapped = {}
      /\ pc' \in {"map", "destroyImage"}
      /\ UNCHANGED <<config, surface, context, buffer, mapped, jobs,
                     session, dropping, req, work, left, queue, img>>
  BY DEF GetImage, ControlInv, UsesSession, ImageInv
<1>2. outcome' \in Reply \cup {None}
  BY ErrorType DEF GetImage, Fail, TypeOK
<1>3. img \in Id /\ image[img] \in ImageShape /\ Live(image) = {img}
  BY <1>1, ImageHeld DEF HoldsImage
<1>4. /\ image' \in [Id -> ImageShape \cup {None}] /\ Live(image') = Live(image)
      /\ pc' = "map" => image'[img].source \in {None, ReadFrom}
  <2>1. CASE image' = [image EXCEPT ![img].copied = surface[ReadFrom].holds]
    <3> DEFINE x == [image[img] EXCEPT !.copied = surface[ReadFrom].holds]
    <3>1. surface[ReadFrom].holds \in Picture \cup {None}
      BY <1>1, ReadFromLive DEF UsesSession
    <3>2. x \in ImageShape /\ x.source = image[img].source
      BY <1>3, <3>1 DEF ImageShape
    <3>3. image' = [image EXCEPT ![img] = x] /\ image \in [Id -> ImageShape \cup {None}]
      BY <2>1 DEF TypeOK
    <3> HIDE DEF x
    <3>4. /\ image' \in [Id -> ImageShape \cup {None}] /\ image'[img] = x
          /\ \A i \in Id \ {img} : image'[i] = image[i]
      BY <1>3, <3>2, <3>3
    <3>5. Live(image') = Live(image)
      BY <1>3, <3>2, <3>4 DEF Live
    <3>6. image[img].source \in {None, ReadFrom}
      BY <1>1 DEF ImageInv
    <3> QED
      BY <3>2, <3>4, <3>5, <3>6
  <2>2. CASE pc' = "destroyImage" /\ UNCHANGED image
    BY <2>2 DEF TypeOK
  <2> QED
    BY <2>1, <2>2 DEF GetImage
<1>5. TypeOK'
  BY <1>1, <1>2, <1>4 DEF TypeOK, Location
<1>6. ControlInv'
  BY <1>1 DEF ControlInv, Destroying, Creating, UsesSession, KeyOf
<1>7. WorkInv'
  BY <1>1 DEF WorkInv, Destroying, NoWork
<1>8. ImageInv'
  BY <1>1, <1>4 DEF ImageInv, HoldsImage, ReadFrom
<1>9. SessionInv'
  BY <1>1 DEF SessionInv, Objects, Renders, Surfaces
<1>10. LedgerExact'
  BY <1>1, <1>4 DEF LedgerExact, Live, Held
<1> QED
  BY <1>5, <1>6, <1>7, <1>8, <1>9, <1>10

LEMMA MapImageIInv == IInv /\ MapImage => IInv'
<1> SUFFICES ASSUME IInv, MapImage PROVE IInv'
  OBVIOUS
<1> USE NoneIsNothing DEF IInv
<1>1. /\ pc = "map" /\ session # None /\ mapped = {}
      /\ UNCHANGED <<config, surface, context, buffer, image, jobs,
                     session, dropping, req, work, left, queue, img>>
  BY DEF MapImage, ControlInv, UsesSession, ImageInv
<1>2. img \in Id /\ image[img].source \in {None, ReadFrom}
  BY <1>1, ImageHeld DEF HoldsImage, ImageInv
<1>3. /\ outcome' \in Reply \cup {None}
      /\ \/ pc' = "copy" /\ mapped' = {img} /\ image[img].fourcc # None
         \/ pc' = "destroyImage" /\ mapped' = {}
  BY <1>1, ErrorType DEF MapImage, Fail, TypeOK
<1>4. TypeOK'
  BY <1>1, <1>2, <1>3 DEF TypeOK, Location
<1>5. ControlInv'
  BY <1>1, <1>3 DEF ControlInv, Destroying, Creating, UsesSession, KeyOf
<1>6. WorkInv'
  BY <1>1, <1>3 DEF WorkInv, Destroying, NoWork
<1>7. ImageInv'
  BY <1>1, <1>2, <1>3 DEF ImageInv, HoldsImage, ReadFrom
<1>8. SessionInv'
  BY <1>1, <1>3 DEF SessionInv, Objects, Renders, Surfaces
<1>9. LedgerExact'
  BY <1>1 DEF LedgerExact, Live, Held
<1> QED
  BY <1>4, <1>5, <1>6, <1>7, <1>8, <1>9

LEMMA CopyPlanesIInv == IInv /\ CopyPlanes => IInv'
<1> SUFFICES ASSUME IInv, CopyPlanes PROVE IInv'
  OBVIOUS
<1> USE NoneIsNothing DEF IInv
<1>1. /\ pc = "copy" /\ pc' = "unmap"
      /\ UNCHANGED <<driverVars, session, dropping, req, work, left, queue, img>>
  BY DEF CopyPlanes
<1>2. /\ image[img] \in ImageShape /\ image[img].fourcc # None
      /\ image[img].source \in {None, ReadFrom}
  BY <1>1, ImageHeld DEF HoldsImage, ImageInv
<1> DEFINE content == IF image[img].source = None THEN image[img].copied
                      ELSE surface[image[img].source].holds
<1>3. content \in Picture \cup {None} /\ image[img].fourcc \in Fourcc
  <2>1. surface[ReadFrom].holds \in Picture \cup {None}
    BY <1>1, ReadFromLive DEF UsesSession
  <2> QED
    BY <1>2, <2>1 DEF ImageShape
<1>4. outcome' \in Reply
  <2>1. Frame(content, image[img].fourcc) \in Reply
    BY <1>3 DEF Reply
  <2>2. Error("invalid") \in Reply /\ Error("decode") \in Reply
    BY ErrorType
  <2> QED
    BY <2>1, <2>2 DEF CopyPlanes, Fail
<1>5. TypeOK'
  BY <1>1, <1>4 DEF TypeOK, Location, driverVars
<1>6. ControlInv'
  BY <1>1 DEF ControlInv, Destroying, Creating, UsesSession, KeyOf
<1>7. WorkInv'
  BY <1>1 DEF WorkInv, Destroying, NoWork
<1>8. ImageInv'
  BY <1>1 DEF ImageInv, HoldsImage, driverVars
<1>9. SessionInv'
  BY <1>1 DEF SessionInv, Objects, Renders, Surfaces, driverVars
<1>10. LedgerExact'
  BY <1>1 DEF LedgerExact, Live, Held, driverVars
<1> QED
  BY <1>5, <1>6, <1>7, <1>8, <1>9, <1>10

LEMMA UnmapImageIInv == IInv /\ UnmapImage => IInv'
<1> SUFFICES ASSUME IInv, UnmapImage PROVE IInv'
  OBVIOUS
<1> USE NoneIsNothing DEF UnmapImage, driverVars, localVars, IInv
<1>1. TypeOK'
  BY ErrorType, KeyType DEF TypeOK, Location, WorkShape, Fail
<1>2. ControlInv'
  BY DEF ControlInv, Destroying, Creating, UsesSession, HoldsImage
<1>3. WorkInv'
  BY DEF TypeOK, WorkShape, WorkInv, Destroying, Creating, ControlInv, NoWork
<1>4. ImageInv'
  BY DEF TypeOK, ImageInv, HoldsImage, ReadFrom
<1>5. SessionInv'
  BY DEF TypeOK, ControlInv, Destroying, UsesSession, Creating, SessionInv, Objects, Renders, Surfaces
<1>6. LedgerExact'
  BY DEF TypeOK, WorkShape, ControlInv, Destroying, Creating, UsesSession, HoldsImage, WorkInv, ImageInv, LedgerExact, Live, Held
<1> QED
  BY <1>1, <1>2, <1>3, <1>4, <1>5, <1>6 DEF IInv

LEMMA DestroyImageIInv == IInv /\ DestroyImage => IInv'
<1> SUFFICES ASSUME IInv, DestroyImage PROVE IInv'
  OBVIOUS
<1> USE NoneIsNothing DEF DestroyImage, driverVars, localVars, IInv
<1>1. TypeOK'
  BY ErrorType, KeyType DEF TypeOK, Location, WorkShape, Fail
<1>2. ControlInv'
  BY DEF ControlInv, Destroying, Creating, UsesSession, HoldsImage
<1>3. WorkInv'
  BY DEF TypeOK, WorkShape, WorkInv, Destroying, Creating, ControlInv, NoWork
<1>4. ImageInv'
  BY DEF TypeOK, ImageInv, HoldsImage, ReadFrom
<1>5. SessionInv'
  BY DEF TypeOK, ControlInv, Destroying, UsesSession, Creating, SessionInv, Objects, Renders, Surfaces
<1>6. LedgerExact'
  BY DEF TypeOK, WorkShape, ControlInv, Destroying, Creating, UsesSession, HoldsImage, WorkInv, ImageInv, LedgerExact, Live, Held
<1> QED
  BY <1>1, <1>2, <1>3, <1>4, <1>5, <1>6 DEF IInv

LEMMA DropIInv == IInv /\ Drop => IInv'
<1> SUFFICES ASSUME IInv, Drop PROVE IInv'
  OBVIOUS
<1> USE NoneIsNothing DEF IInv
<1>1. /\ pc = "idle" /\ dropping' /\ session' = None /\ req' = None /\ outcome' = None
      /\ work = NoWork /\ img = None
      /\ UNCHANGED <<driverVars, left, queue, img>>
  BY DEF Drop, WorkInv, Destroying, ImageInv, HoldsImage
<1>2. dropping' \in BOOLEAN
  BY DEF Drop
<1>3. CASE session = None
  <2>1. pc' = "terminate" /\ work' = work
    BY <1>3 DEF Drop
  <2>2. TypeOK'
    BY <1>1, <1>2, <2>1 DEF TypeOK, Location, driverVars
  <2>3. ControlInv'
    BY <1>1, <2>1 DEF ControlInv, Destroying, Creating, UsesSession
  <2>4. WorkInv'
    BY <1>1, <2>1 DEF WorkInv, Destroying, NoWork
  <2>5. ImageInv'
    BY <1>1, <2>1 DEF ImageInv, HoldsImage, driverVars
  <2>6. SessionInv'
    BY <1>1, <2>1 DEF SessionInv
  <2>7. LedgerExact'
    BY <1>1, <1>3, <2>1 DEF LedgerExact, Live, Held, driverVars
  <2> QED
    BY <2>2, <2>3, <2>4, <2>5, <2>6, <2>7
<1>4. CASE session # None
  <2>1. session \in SessionShape /\ pc' = "destroyContext" /\ work' = Handles(session)
    BY <1>4 DEF TypeOK, Drop
  <2>2. /\ work' \in WorkShape
        /\ work'.config = session.config /\ work'.context = session.context
        /\ work'.decode = session.decode /\ work'.display = session.display
    BY <2>1 DEF SessionShape, WorkShape, Handles
  <2>3. TypeOK'
    BY <1>1, <1>2, <2>1, <2>2 DEF TypeOK, Location, driverVars
  <2>4. ControlInv'
    BY <1>1, <2>1 DEF ControlInv, Destroying, Creating, UsesSession
  <2>5. WorkInv'
    BY <1>4, <2>1, <2>2 DEF SessionShape, WorkInv, Destroying, SessionInv, Objects
  <2>6. ImageInv'
    BY <1>1, <2>1 DEF ImageInv, HoldsImage, driverVars
  <2>7. SessionInv'
    BY <1>1, <1>4, <2>1, <2>2 DEF SessionInv, Renders, Surfaces, driverVars
  <2>8. LedgerExact'
    BY <1>1, <1>4, <2>1, <2>2 DEF LedgerExact, Live, Held, NoWork, driverVars
  <2> QED
    BY <2>3, <2>4, <2>5, <2>6, <2>7, <2>8
<1> QED
  BY <1>3, <1>4

LEMMA TerminateIInv == IInv /\ Terminate => IInv'
<1> SUFFICES ASSUME IInv, Terminate PROVE IInv'
  OBVIOUS
<1> USE NoneIsNothing DEF IInv
<1>1. /\ pc = "terminate" /\ pc' = "closed" /\ session = None /\ work = NoWork
      /\ img = None /\ mapped' = {} /\ jobs' = <<>> /\ buffer' = {}
      /\ UNCHANGED <<session, localVars>>
  BY DEF Terminate, ControlInv, WorkInv, Destroying, ImageInv, HoldsImage
<1>2. dropping' = FALSE
  BY DEF Terminate
<1>3. /\ config' \in [Id -> Profile \cup {None}] /\ surface' \in [Id -> SurfaceShape \cup {None}]
      /\ context' \in [Id -> ContextShape \cup {None}] /\ image' \in [Id -> ImageShape \cup {None}]
  BY Zenon DEF Terminate
<1>4. jobs' \in Seq(JobShape)
  BY <1>1, Z3
<1>5. TypeOK'
  BY <1>1, <1>2, <1>3, <1>4 DEF TypeOK, Location, localVars
<1>6. ControlInv'
  BY <1>1, <1>2 DEF ControlInv, Destroying, Creating, UsesSession, localVars
<1>7. WorkInv'
  BY <1>1 DEF WorkInv, Destroying, NoWork, localVars
<1>8. ImageInv'
  BY <1>1 DEF ImageInv, HoldsImage, localVars
<1>9. SessionInv'
  BY <1>1 DEF SessionInv
<1>10. LedgerExact'
  <2>1. Live(config') = {} /\ Live(context') = {} /\ Live(surface') = {} /\ Live(image') = {}
    BY Zenon DEF Terminate, Live
  <2>2. \A part \in {"config", "context", "decode", "display"} : Held(part)' = {}
    BY <1>1 DEF Held, NoWork, localVars
  <2>3. queue' = {}
    BY <1>1 DEF ControlInv, localVars
  <2> QED
    BY <1>1, <2>1, <2>2, <2>3 DEF LedgerExact, localVars
<1> QED
  BY <1>5, <1>6, <1>7, <1>8, <1>9, <1>10

LEMMA NextIInv == IInv /\ [Next]_vars => IInv'
<1> SUFFICES ASSUME IInv, [Next]_vars PROVE IInv'
  OBVIOUS
<1>1. CASE SessionStep
  BY <1>1, ReuseSessionIInv, ReplaceSessionIInv, DestroyContextIInv,
     DestroySurfacesIInv, DestroyConfigIInv, CreateConfigIInv,
     CreateSurfacesIInv, CreateContextIInv DEF SessionStep
<1>2. CASE SubmitStep
  BY <1>2, BuildParamsIInv, PushBufferIInv, BeginPictureIInv, RenderPictureIInv,
     EndPictureIInv, DestroyBufferIInv, BuffersDestroyedIInv, SyncSurfaceIInv DEF SubmitStep
<1>3. CASE ReadStep
  BY <1>3, DeriveImageIInv, DropDerivedIInv, CreateImageIInv, GetImageIInv,
     MapImageIInv, CopyPlanesIInv, UnmapImageIInv, DestroyImageIInv DEF ReadStep
<1>4. CASE Open \/ Return \/ Terminate \/ Drop \/ GpuFinishes
  BY <1>4, OpenIInv, ReturnIInv, TerminateIInv, DropIInv, GpuFinishesIInv
<1>5. CASE \E r \in Request : DecodeStill(r)
  BY <1>5, DecodeStillIInv
<1>6. CASE UNCHANGED vars
  <2> USE <1>6 DEF vars, driverVars, localVars, IInv
  <2>1. TypeOK'
    BY DEF TypeOK
  <2>2. ControlInv'
    BY DEF ControlInv, KeyOf
  <2>3. WorkInv'
    BY DEF WorkInv, NoWork
  <2>4. ImageInv'
    BY DEF ImageInv, ReadFrom
  <2>5. SessionInv'
    BY DEF SessionInv, Objects, Renders, Surfaces
  <2>6. LedgerExact'
    BY DEF LedgerExact, Live, Held
  <2> QED
    BY <2>1, <2>2, <2>3, <2>4, <2>5, <2>6
<1> QED
  BY <1>1, <1>2, <1>3, <1>4, <1>5, <1>6 DEF Next, Step

(* IInv holds in every reachable state.                                    *)
THEOREM Inductive == Spec => []IInv
BY InitIInv, NextIInv, PTL DEF Spec

(* Every variable keeps the type of its Rust counterpart.                  *)
THEOREM TypeCorrect == Spec => []TypeOK
<1>1. IInv => TypeOK
  BY DEF IInv
<1> QED
  BY <1>1, Inductive, PTL

(* No early return of session, destroy_session or read_surface leaks an    *)
(* object of the driver or keeps a handle to a dead one.                   *)
THEOREM LedgerAlwaysExact == Spec => []LedgerExact
<1>1. IInv => LedgerExact
  BY DEF IInv
<1> QED
  BY <1>1, Inductive, PTL

(* A live context never has a dead config or render target: destroy_session *)
(* and the clean-up of session destroy in the order libva requires.        *)
THEOREM ContextsHaveTargets == Spec => []TargetsOutliveContext
<1>1. IInv => TargetsOutliveContext
  <2> SUFFICES ASSUME IInv, NEW c \in Live(context)
               PROVE  /\ context[c].config \in Live(config)
                      /\ context[c].targets \subseteq Live(surface)
    BY DEF TargetsOutliveContext
  <2> USE NoneIsNothing DEF IInv
  <2>1. c \in {work.context} \cup (IF session = None THEN {} ELSE {session.context})
        /\ c # None
    BY DEF LedgerExact, Held
  <2>2. CASE c = work.context
    <3>1. pc = "destroyContext" /\ Renders(work.context, work) /\ work.config \in Id
      BY <2>1, <2>2 DEF WorkInv, SessionInv, Destroying
    <3>2. Live(config) = Held("config") /\ Live(surface) = Held("decode") \cup Held("display")
      BY DEF LedgerExact
    <3> QED
      BY <2>2, <3>1, <3>2 DEF Renders, Surfaces, Held
  <2>3. CASE session # None /\ c = session.context
    <3>1. session \in SessionShape /\ Renders(session.context, session)
      BY <2>3 DEF TypeOK, SessionInv
    <3>2. Live(config) = Held("config") /\ Live(surface) = Held("decode") \cup Held("display")
      BY DEF LedgerExact
    <3> QED
      BY <2>3, <3>1, <3>2 DEF Renders, Surfaces, Held, SessionShape
  <2> QED
    BY <2>1, <2>2, <2>3
<1> QED
  BY <1>1, Inductive, PTL

(* A session kept from an earlier call is used only by a call it was       *)
(* created for: profile, size, format and number of surfaces.              *)
THEOREM SessionAlwaysServes == Spec => []SessionServesRequest
<1>1. IInv => SessionServesRequest
  <2> SUFFICES ASSUME IInv, pc \in UsesSession
               PROVE  session # None /\ Serves(session, req)
    BY DEF SessionServesRequest, UsesSession
  <2>1. /\ session # None /\ session.key = KeyOf(req)
        /\ Objects(session, session.key) /\ Renders(session.context, session)
        /\ context[session.context].size = session.key.size
    BY DEF IInv, ControlInv, SessionInv
  <2>2. /\ session.key.profile = ProfileOf(req) /\ session.key.size = req.size
        /\ session.key.fourcc = FourccOf(req)
        /\ session.key.surfaces = IF req.grain THEN 2 ELSE 1
    BY <2>1 DEF KeyOf
  <2>3. req.grain \in BOOLEAN
    BY RequestAssumption DEF IInv, ControlInv, UsesSession, Destroying, RequestShape
  <2> QED
    BY <2>1, <2>2, <2>3 DEF Serves, Objects, Renders
<1> QED
  BY <1>1, Inductive, PTL

(* read_surface unmaps before it destroys.                                 *)
THEOREM MappedAlwaysLives == Spec => []MappedImageLives
<1>1. IInv => MappedImageLives
  <2> SUFFICES ASSUME IInv PROVE MappedImageLives
    OBVIOUS
  <2>1. CASE pc \in HoldsImage
    BY <2>1, ImageHeld DEF IInv, ImageInv, MappedImageLives
  <2>2. CASE pc \notin HoldsImage
    BY <2>2 DEF IInv, ImageInv, HoldsImage, MappedImageLives
  <2> QED
    BY <2>1, <2>2
<1> QED
  BY <1>1, Inductive, PTL

(* The display is terminated after everything created on it is destroyed.  *)
THEOREM DisplayLast == Spec => []DisplayTerminatedLast
<1>1. IInv => DisplayTerminatedLast
  <2> SUFFICES ASSUME IInv, pc = "terminate"
               PROVE  Live(config) \cup Live(context) \cup Live(surface) \cup Live(image) = {}
    BY DEF DisplayTerminatedLast
  <2>1. session = None /\ work = NoWork /\ img = None
    BY DEF IInv, ControlInv, WorkInv, ImageInv, Destroying, HoldsImage
  <2> QED
    BY <2>1 DEF IInv, LedgerExact, Held, NoWork
<1> QED
  BY <1>1, Inductive, PTL

(* Once submit is entered, an id leaves the Vec only by being destroyed.   *)
THEOREM SubmitKeepsBuffers == Spec => SubmitDestroysBuffers
<1>1. IInv /\ [Next]_vars => [pc # "push" => queue \ queue' \subseteq buffer \ buffer']_vars
  <2> SUFFICES ASSUME IInv, Next, pc # "push"
               PROVE  queue \ queue' \subseteq buffer \ buffer'
    OBVIOUS
  <2>1. CASE DestroyBuffer
    BY <2>1 DEF DestroyBuffer, IInv, LedgerExact
  <2>2. CASE SessionStep
    BY <2>2 DEF SessionStep, ReuseSession, ReplaceSession, DestroyContext,
       DestroySurfaces, DestroyConfig, CreateConfig, CreateSurfaces, CreateContext, localVars
  <2>3. CASE ReadStep
    BY <2>3 DEF ReadStep, DeriveImage, DropDerived, CreateImage, GetImage,
       MapImage, CopyPlanes, UnmapImage, DestroyImage, localVars
  <2>4. CASE SubmitStep /\ ~DestroyBuffer
    BY <2>4 DEF SubmitStep, BuildParams, PushBuffer, BeginPicture, RenderPicture,
       EndPicture, BuffersDestroyed, SyncSurface, localVars
  <2>5. CASE Open \/ Return \/ Terminate \/ GpuFinishes \/ Drop
    BY <2>5 DEF Open, Return, Terminate, GpuFinishes, Drop, localVars
  <2>6. CASE \E r \in Request : DecodeStill(r)
    BY <2>6 DEF DecodeStill
  <2> QED
    BY <2>1, <2>2, <2>3, <2>4, <2>5, <2>6 DEF Next, Step
<1> QED
  BY <1>1, Inductive, PTL DEF Spec, SubmitDestroysBuffers

-----------------------------------------------------------------------------
(* The contract                                                            *)

LEMMA ErrorIsSomething ==
  ASSUME NEW k \in {"decode", "unavailable", "invalid"}
  PROVE  Error(k) # None
BY ErrorType, DriverAssumption

(* A sequence whose tail is empty has its first element last.              *)
LEMMA LastOfOne ==
  ASSUME NEW S, NEW s \in Seq(S), s # <<>>, Tail(s) = <<>>
  PROVE  Len(s) = 1 /\ Head(s) = s[Len(s)]
<1>1. Len(s) \in Nat /\ Len(s) # 0
  BY EmptySeq, LenProperties
<1>2. Len(Tail(s)) = Len(s) - 1
  BY HeadTailProperties
<1>3. Len(Tail(s)) = 0
  BY EmptySeq
<1>4. Len(s) = 1
  BY <1>1, <1>2, <1>3
<1> QED
  BY <1>4

(* submit queues the picture behind those of earlier calls.                *)
LEMMA EndPicturePicture == IInv /\ EndPicture => PictureInv'
<1> SUFFICES ASSUME IInv, EndPicture PROVE PictureInv'
  OBVIOUS
<1>1. pc' = "release" /\ req' = req /\ session' = session
  BY DEF EndPicture
<1>2. CASE Fail("decode")
  BY <1>1, <1>2, ErrorIsSomething DEF Fail, PictureInv, Reading
<1>3. CASE jobs' = Append(jobs, OwnJob)
  <2>1. jobs \in Seq(JobShape)
    BY DEF IInv, TypeOK
  <2> HIDE DEF OwnJob
  <2>2. jobs' # <<>> /\ jobs'[Len(jobs')] = OwnJob
    BY <1>3, <2>1
  <2>3. OwnJob' = OwnJob
    BY <1>1 DEF OwnJob
  <2> QED
    BY <1>1, <2>2, <2>3 DEF PictureInv, Reading
<1> QED
  BY <1>2, <1>3 DEF EndPicture, OwnJob

(* The GPU finishing another picture leaves ours last; finishing ours      *)
(* leaves it in the surface that will be read.                             *)
LEMMA GpuFinishesPicture == IInv /\ PictureInv /\ GpuFinishes => PictureInv'
<1> SUFFICES ASSUME IInv, PictureInv, GpuFinishes,
                    pc = "sync" \/ (pc = "release" /\ outcome = None)
             PROVE  IF jobs' = <<>> THEN OwnDone' ELSE jobs'[Len(jobs')] = OwnJob'
  BY DEF GpuFinishes, PictureInv, Reading, localVars
<1>1. /\ UNCHANGED <<req, session, pc>> /\ jobs \in Seq(JobShape)
      /\ jobs # <<>> /\ jobs' = Tail(jobs) /\ jobs[Len(jobs)] = OwnJob
  BY DEF GpuFinishes, localVars, IInv, TypeOK, PictureInv
<1>2. OwnJob' = OwnJob /\ ReadFrom' = ReadFrom /\ PictureOf(req)' = PictureOf(req)
  BY <1>1 DEF OwnJob, ReadFrom, PictureOf
<1>3. CASE jobs' = <<>>
  <2>1. Len(jobs) = 1 /\ Head(jobs) = jobs[Len(jobs)]
    BY <1>1, <1>3, LastOfOne
  <2>2. Head(jobs) = OwnJob
    BY <1>1, <2>1
  <2>3. /\ ReadFrom \in Id /\ surface[ReadFrom] \in SurfaceShape
        /\ session # None /\ Objects(session, session.key) /\ session.key = KeyOf(req)
    BY ReadFromLive DEF UsesSession, IInv, ControlInv, SessionInv
  <2>4. req.grain \in BOOLEAN
    BY RequestAssumption DEF IInv, ControlInv, Destroying, RequestShape
  <2>5. session.display # None <=> req.grain
    BY <2>3, <2>4 DEF Objects, KeyOf
  <2>6. ReadFrom \in Surfaces(OwnJob)
    BY <2>3, <2>5, NoneIsNothing DEF ReadFrom, Surfaces, OwnJob
  <2>7. Holding(OwnJob, ReadFrom) = PictureOf(req)
    <3>1. (ReadFrom = OwnJob.display) <=> req.grain
      BY <2>3, <2>4 DEF ReadFrom, OwnJob, Objects
    <3>2. (ReadFrom = OwnJob.display) = req.grain
      BY <2>4, <3>1
    <3> QED
      BY <3>2 DEF Holding, PictureOf, OwnJob
  <2> DEFINE x == [surface[ReadFrom] EXCEPT !.holds = PictureOf(req)]
  <2>8. surface[ReadFrom] # None
    BY <2>3, NoneIsNothing
  <2>9. surface'[ReadFrom] = x
    BY <2>2, <2>3, <2>6, <2>7, <2>8 DEF GpuFinishes
  <2>10. x.holds = PictureOf(req)
    BY <2>3 DEF SurfaceShape
  <2> HIDE DEF x
  <2> QED
    BY <1>2, <1>3, <2>9, <2>10 DEF OwnDone
<1>4. CASE jobs' # <<>>
  <2> HIDE DEF OwnJob
  <2>1. jobs'[Len(jobs')] = jobs[Len(jobs)]
    BY <1>1, <1>4
  <2> QED
    BY <1>1, <1>2, <1>4, <2>1
<1> QED
  BY <1>3, <1>4

(* vaSyncSurface lets the read-back start only when the picture is done.   *)
LEMMA SubmitPicture ==
  IInv /\ PictureInv /\ (DestroyBuffer \/ BuffersDestroyed \/ SyncSurface) => PictureInv'
<1> SUFFICES ASSUME IInv, PictureInv, DestroyBuffer \/ BuffersDestroyed \/ SyncSurface
             PROVE PictureInv'
  OBVIOUS
<1>1. UNCHANGED <<surface, jobs, session, req>>
  BY DEF DestroyBuffer, BuffersDestroyed, SyncSurface, driverVars, localVars
<1>2. OwnDone' = OwnDone /\ OwnJob' = OwnJob
  BY <1>1 DEF OwnDone, OwnJob, ReadFrom, PictureOf
<1> HIDE DEF OwnDone, OwnJob
<1>3. CASE DestroyBuffer
  BY <1>1, <1>2, <1>3 DEF DestroyBuffer, PictureInv, Reading
<1>4. CASE BuffersDestroyed
  BY <1>1, <1>2, <1>4 DEF BuffersDestroyed, PictureInv, Reading, localVars
<1>5. CASE SyncSurface
  BY <1>1, <1>2, <1>5 DEF SyncSurface, PictureInv, Reading
<1> QED
  BY <1>3, <1>4, <1>5

(* The read-back writes no surface.                                        *)
LEMMA ReadPicture == IInv /\ PictureInv /\ ReadStep => PictureInv'
<1> SUFFICES ASSUME IInv, PictureInv, ReadStep PROVE PictureInv'
  OBVIOUS
<1> USE DEF ReadStep, DeriveImage, DropDerived, CreateImage, GetImage, MapImage,
            CopyPlanes, UnmapImage, DestroyImage, driverVars, localVars
<1>1. UNCHANGED <<surface, jobs, session, req>> /\ pc' \notin {"sync", "release"}
  OBVIOUS
<1>2. pc' \in Reading => pc \in Reading
  BY DEF Reading
<1>3. OwnDone' = OwnDone
  BY <1>1 DEF OwnDone, ReadFrom, PictureOf
<1> QED
  BY <1>1, <1>2, <1>3 DEF PictureInv

(* Every other step ends outside the stretch the invariant speaks of.      *)
LEMMA OtherPicture ==
  ASSUME IInv, PictureInv,
         \/ SessionStep \/ BuildParams \/ PushBuffer \/ BeginPicture \/ RenderPicture
         \/ Open \/ Return \/ Terminate \/ Drop
         \/ \E r \in Request : DecodeStill(r)
  PROVE  PictureInv'
<1>1. CASE SessionStep
  <2>1. pc' \notin Reading \cup {"sync", "release"}
    BY <1>1 DEF SessionStep, ReuseSession, ReplaceSession, DestroyContext,
       DestroySurfaces, DestroyConfig, CreateConfig, CreateSurfaces, CreateContext, Reading
  <2> QED
    BY <2>1 DEF PictureInv
<1>2. CASE BuildParams \/ PushBuffer \/ Open \/ Return \/ Terminate \/ Drop
  <2>1. pc' \notin Reading \cup {"sync", "release"}
    BY <1>2 DEF BuildParams, PushBuffer, Open, Return, Terminate, Drop, Reading
  <2> QED
    BY <2>1 DEF PictureInv
<1>3. CASE BeginPicture \/ RenderPicture
  <2>1. pc' \notin Reading \cup {"sync"} /\ (pc' = "release" => outcome' # None)
    BY <1>3, ErrorIsSomething DEF BeginPicture, RenderPicture, Reading, Fail
  <2> QED
    BY <2>1 DEF PictureInv
<1>4. CASE \E r \in Request : DecodeStill(r)
  <2>1. pc' \notin Reading \cup {"sync", "release"}
    BY <1>4 DEF DecodeStill, Reading
  <2> QED
    BY <2>1 DEF PictureInv
<1> QED
  BY <1>1, <1>2, <1>3, <1>4

LEMMA NextPicture == IInv /\ PictureInv /\ [Next]_vars => PictureInv'
<1> SUFFICES ASSUME IInv, PictureInv, [Next]_vars PROVE PictureInv'
  OBVIOUS
<1>1. CASE UNCHANGED vars
  <2> USE <1>1 DEF vars, driverVars, localVars
  <2>1. OwnDone' = OwnDone /\ OwnJob' = OwnJob
    BY DEF OwnDone, OwnJob, ReadFrom, PictureOf
  <2> QED
    BY <2>1 DEF PictureInv
<1>2. CASE Next
  BY <1>2, EndPicturePicture, GpuFinishesPicture, SubmitPicture, ReadPicture, OtherPicture
     DEF Next, Step, SubmitStep
<1> QED
  BY <1>1, <1>2

(* Between vaSyncSurface and the copy the surface read back holds the      *)
(* finished picture of this request, with film grain if it asks for it:    *)
(* never that of an earlier tile decoded into the same session.            *)
THEOREM AlwaysReadsOwnPicture == Spec => []ReadsOwnPicture
<1>1. Init => PictureInv
  BY DEF Init, PictureInv, Reading
<1>2. PictureInv => ReadsOwnPicture
  BY DEF PictureInv, ReadsOwnPicture, Reading, OwnDone
<1> QED
  BY <1>1, <1>2, Inductive, NextPicture, PTL DEF Spec

-----------------------------------------------------------------------------
(* The instance's vocabulary is the module's own.                          *)
LEMMA SameReplies ==
  ASSUME NEW r
  PROVE  Contract!Allowed(r) =
           IF Screen(r) = "ok"
           THEN {Frame(PictureOf(r), FourccOf(r)), Error("decode"), Error("invalid")}
           ELSE {Error(Screen(r))}
BY DEF Contract!Allowed, Contract!Screen, Contract!ProfileOf, Contract!PictureOf,
       Contract!FourccOf, Contract!Frame, Contract!Error,
       Screen, ProfileOf, PictureOf, FourccOf, Frame, Error

(* A request that was screened may fail to decode, whatever it asks for.   *)
LEMMA FailureAllowed ==
  ASSUME Screen(req) = "ok"
  PROVE  Error("decode") \in Contract!Allowed(req)
         /\ Error("invalid") \in Contract!Allowed(req)
BY SameReplies

(* decode_still screens the request before anything else: a refusal is the *)
(* reply the contract names, and past it the request is in scope.          *)
LEMMA DecodeStillOutcome ==
  ASSUME NEW r \in Request PROVE DecodeStill(r) => OutcomeInv'
<1> SUFFICES ASSUME DecodeStill(r) PROVE OutcomeInv'
  OBVIOUS
<1>1. req' = r /\ pc' \in {"session", "return"}
  BY DEF DecodeStill
<1>2. CASE Screen(r) = "ok"
  BY <1>1, <1>2 DEF DecodeStill, OutcomeInv, Screened, Replied
<1>3. CASE Screen(r) # "ok"
  <2>1. outcome' = Error(Screen(r)) /\ pc' = "return"
    BY <1>3 DEF DecodeStill, Fail
  <2>2. outcome' \in Contract!Allowed(r)
    BY <1>3, <2>1, SameReplies
  <2>3. Contract!Allowed(req)' = Contract!Allowed(r)
    BY <1>1, SameReplies
  <2> QED
    BY <2>1, <2>2, <2>3 DEF OutcomeInv, Screened, Replied
<1> QED
  BY <1>2, <1>3

(* session and submit decide nothing but Decode, and return nothing else.  *)
LEMMA WorkOutcome ==
  IInv /\ OutcomeInv /\ (SessionStep \/ SubmitStep) => OutcomeInv'
<1> SUFFICES ASSUME IInv, OutcomeInv, SessionStep \/ SubmitStep
             PROVE  OutcomeInv'
  OBVIOUS
<1>1. /\ pc \notin Replied \cup {"closed", "idle", "terminate"}
      /\ pc' \notin {"unmap", "destroyImage", "map", "copy", "closed", "idle"}
      /\ req' = req /\ dropping' = dropping
      /\ outcome' \in {outcome, Error("decode")}
      /\ pc' = "return" => outcome' # None /\ ~dropping
  <2>1. CASE SessionStep
    BY <2>1, ErrorIsSomething DEF SessionStep, ReuseSession, ReplaceSession, DestroyContext,
       DestroySurfaces, DestroyConfig, CreateConfig, CreateSurfaces, CreateContext,
       driverVars, localVars, Fail, Replied, IInv, ControlInv, Destroying
  <2>2. CASE SubmitStep
    BY <2>2, ErrorIsSomething DEF SubmitStep, BuildParams, PushBuffer, BeginPicture,
       RenderPicture, EndPicture, DestroyBuffer, BuffersDestroyed, SyncSurface,
       driverVars, localVars, Fail, Replied, IInv, ControlInv, Destroying
  <2> QED
    BY <2>1, <2>2
<1>2. ~dropping => Screen(req) = "ok" /\ outcome' \in {None, Error("decode")}
  BY <1>1 DEF OutcomeInv, Screened, Replied
<1>3. Screen(req)' = Screen(req) /\ Contract!Allowed(req)' = Contract!Allowed(req)
  BY <1>1, SameReplies
<1>4. pc' = "return" => outcome' \in Contract!Allowed(req)
  BY <1>1, <1>2, FailureAllowed
<1> QED
  BY <1>1, <1>2, <1>3, <1>4 DEF OutcomeInv, Screened, Replied
(* A derived image shows the surface itself.                               *)
LEMMA DeriveImageOutcome == IInv /\ OutcomeInv /\ DeriveImage => OutcomeInv'
<1> SUFFICES ASSUME IInv, OutcomeInv, DeriveImage PROVE OutcomeInv'
  OBVIOUS
<1>1. /\ pc = "derive" /\ pc' \in {"map", "dropDerived", "createImage"}
      /\ UNCHANGED <<req, dropping, outcome>>
  BY DEF DeriveImage
<1>2. ~dropping
  BY <1>1 DEF IInv, ControlInv, Destroying
<1>3. pc' = "map" => image'[img'].source # None
  <2> SUFFICES ASSUME pc' = "map" PROVE image'[img'].source # None
    OBVIOUS
  <2>1. PICK i \in Free(image), f \in Fourcc \cup {None} :
          /\ image' = [image EXCEPT ![i] =
               [fourcc |-> f, source |-> ReadFrom, copied |-> None]]
          /\ img' = i
    BY DEF DeriveImage
  <2>2. image'[img'].source = ReadFrom
    BY <2>1 DEF Free, IInv, TypeOK
  <2> QED
    BY <1>1, <2>2, ReadFromLive, NoneIsNothing DEF UsesSession
<1>4. Screen(req)' = Screen(req)
  BY <1>1
<1> QED
  BY <1>1, <1>2, <1>3, <1>4 DEF OutcomeInv, Screened, Replied

(* vaGetImage copies the surface, which holds the picture of the request.  *)
LEMMA GetImageOutcome ==
  IInv /\ PictureInv /\ OutcomeInv /\ GetImage => OutcomeInv'
<1> SUFFICES ASSUME IInv, PictureInv, OutcomeInv, GetImage PROVE OutcomeInv'
  OBVIOUS
<1>1. /\ pc = "getImage" /\ pc' \in {"map", "destroyImage"}
      /\ UNCHANGED <<req, dropping, img>>
  BY DEF GetImage
<1>2. ~dropping /\ Screen(req) = "ok" /\ Screen(req)' = "ok"
  BY <1>1 DEF IInv, ControlInv, Destroying, OutcomeInv, Screened
<1>3. Contract!Allowed(req)' = Contract!Allowed(req)
  BY <1>1, SameReplies
<1>4. CASE pc' = "map"
  <2>1. image' = [image EXCEPT ![img].copied = surface[ReadFrom].holds] /\ outcome' = outcome
    BY <1>4 DEF GetImage
  <2>2. img \in Id /\ image[img] \in ImageShape /\ image \in [Id -> ImageShape \cup {None}]
    BY <1>1, ImageHeld DEF HoldsImage, IInv, TypeOK
  <2>3. image'[img].copied = surface[ReadFrom].holds
    BY <2>1, <2>2 DEF ImageShape
  <2>4. surface[ReadFrom].holds = PictureOf(req)
    BY <1>1 DEF PictureInv, Reading, OwnDone
  <2>5. PictureOf(req)' = PictureOf(req)
    BY <1>1
  <2> QED
    BY <1>1, <1>2, <1>4, <2>1, <2>3, <2>4, <2>5 DEF OutcomeInv, Screened, Replied
<1>5. CASE pc' = "destroyImage" /\ Fail("decode")
  BY <1>1, <1>2, <1>3, <1>5, FailureAllowed DEF Fail, OutcomeInv, Screened, Replied
<1> QED
  BY <1>4, <1>5 DEF GetImage

(* A frame is handed out only in the format the bit depth calls for, with  *)
(* the picture of the request in it, whichever image it was read through.  *)
LEMMA CopyPlanesOutcome ==
  IInv /\ PictureInv /\ OutcomeInv /\ CopyPlanes => OutcomeInv'
<1> SUFFICES ASSUME IInv, PictureInv, OutcomeInv, CopyPlanes PROVE OutcomeInv'
  OBVIOUS
<1> DEFINE content == IF image[img].source = None THEN image[img].copied
                      ELSE surface[image[img].source].holds
<1>1. /\ pc = "copy" /\ pc' = "unmap" /\ UNCHANGED <<req, dropping>>
      /\ \/ /\ (image[img].fourcc = "NV12") <=> (req.depth = 8)
            /\ outcome' = Frame(content, image[img].fourcc)
         \/ outcome' \in {Error("invalid"), Error("decode")}
  BY DEF CopyPlanes, Fail
<1>2. ~dropping /\ Screen(req) = "ok" /\ Screen(req)' = "ok"
  BY <1>1 DEF IInv, ControlInv, Destroying, OutcomeInv, Screened
<1>3. Contract!Allowed(req)' = Contract!Allowed(req)
  BY <1>1, SameReplies
<1>4. content = PictureOf(req)
  <2>1. image[img].source \in {None, ReadFrom} /\ surface[ReadFrom].holds = PictureOf(req)
    BY <1>1 DEF IInv, ImageInv, PictureInv, Reading, OwnDone
  <2> QED
    BY <1>1, <2>1 DEF OutcomeInv
<1>5. image[img].fourcc \in Fourcc
  BY <1>1, ImageHeld DEF HoldsImage, ImageShape, IInv, ImageInv
<1>6. outcome' \in Contract!Allowed(req)
  <2>1. CASE outcome' \in {Error("invalid"), Error("decode")}
    BY <1>2, <2>1, FailureAllowed
  <2>2. CASE /\ (image[img].fourcc = "NV12") <=> (req.depth = 8)
             /\ outcome' = Frame(content, image[img].fourcc)
    <3>1. image[img].fourcc = FourccOf(req)
      BY <1>5, <2>2 DEF Fourcc, FourccOf
    <3> HIDE DEF content
    <3> QED
      BY <1>2, <1>4, <2>2, <3>1, SameReplies
  <2> QED
    BY <1>1, <2>1, <2>2
<1> QED
  BY <1>1, <1>2, <1>3, <1>6 DEF OutcomeInv, Screened, Replied

(* The rest of the read-back decides nothing but Decode.                   *)
LEMMA ReadOutcome ==
  ASSUME IInv, OutcomeInv,
         DropDerived \/ CreateImage \/ MapImage \/ UnmapImage \/ DestroyImage
  PROVE  OutcomeInv'
<1>1. UNCHANGED <<req, dropping>>
  BY DEF DropDerived, CreateImage, MapImage, UnmapImage, DestroyImage, localVars
<1>2. ~dropping /\ Screen(req)' = Screen(req)
  BY <1>1 DEF IInv, ControlInv, Destroying, DropDerived, CreateImage, MapImage,
     UnmapImage, DestroyImage
<1>3. Contract!Allowed(req)' = Contract!Allowed(req)
  BY <1>1, SameReplies
<1>4. CASE DropDerived
  BY <1>1, <1>2, <1>4 DEF DropDerived, OutcomeInv, Screened, Replied
<1>5. CASE CreateImage
  BY <1>1, <1>2, <1>3, <1>5, FailureAllowed
     DEF CreateImage, Fail, OutcomeInv, Screened, Replied
<1>6. CASE MapImage
  BY <1>1, <1>2, <1>3, <1>6, FailureAllowed
     DEF MapImage, Fail, OutcomeInv, Screened, Replied
<1>7. CASE UnmapImage \/ DestroyImage
  BY <1>1, <1>2, <1>3, <1>7
     DEF UnmapImage, DestroyImage, localVars, OutcomeInv, Screened, Replied
<1> QED
  BY <1>4, <1>5, <1>6, <1>7

(* Outside a call nothing is decided, and the GPU decides nothing.         *)
LEMMA OutsideOutcome ==
  IInv /\ OutcomeInv /\ (Open \/ Return \/ Drop \/ Terminate \/ GpuFinishes) => OutcomeInv'
<1> SUFFICES ASSUME IInv, OutcomeInv, Open \/ Return \/ Drop \/ Terminate \/ GpuFinishes
             PROVE  OutcomeInv'
  OBVIOUS
<1>1. CASE Open \/ Return \/ Drop \/ Terminate
  BY <1>1 DEF Open, Return, Drop, Terminate, OutcomeInv, Screened, Replied
<1>2. CASE GpuFinishes
  <2>1. UNCHANGED <<pc, req, dropping, outcome, image, img>>
    BY <1>2 DEF GpuFinishes, localVars
  <2>2. Contract!Allowed(req)' = Contract!Allowed(req)
    BY <2>1, SameReplies
  <2> QED
    BY <2>1, <2>2 DEF OutcomeInv, Screened, Replied
<1> QED
  BY <1>1, <1>2

LEMMA NextOutcome == CallInv /\ [Next]_vars => OutcomeInv'
<1> SUFFICES ASSUME IInv, PictureInv, OutcomeInv, [Next]_vars PROVE OutcomeInv'
  BY DEF CallInv
<1>1. CASE UNCHANGED vars
  <2>1. UNCHANGED <<pc, req, dropping, outcome, image, img>>
    BY <1>1 DEF vars, driverVars, localVars
  <2>2. Contract!Allowed(req)' = Contract!Allowed(req)
    BY <2>1, SameReplies
  <2> QED
    BY <2>1, <2>2 DEF OutcomeInv, Screened, Replied
<1>2. CASE Next
  BY <1>2, DecodeStillOutcome, WorkOutcome, DeriveImageOutcome, GetImageOutcome,
     CopyPlanesOutcome, ReadOutcome, OutsideOutcome DEF Next, Step, ReadStep
<1> QED
  BY <1>1, <1>2

(* In every reachable state the types, the ledger, the picture read back   *)
(* and the result decided are those the code means them to be.             *)
THEOREM CallInvariant == Spec => []CallInv
<1>1. Init => PictureInv /\ OutcomeInv
  BY DEF Init, PictureInv, Reading, OutcomeInv, Screened, Replied
<1>2. IInv /\ PictureInv /\ OutcomeInv <=> CallInv
  BY DEF CallInv
<1> QED
  BY <1>1, <1>2, InitIInv, NextIInv, NextPicture, NextOutcome, PTL DEF Spec

-----------------------------------------------------------------------------
(* What the contract sees of the decoder: the substitution of Contract.    *)
Status == IF pc = "closed" \/ dropping THEN "closed"
          ELSE IF pc = "idle" THEN "ready" ELSE "busy"
Answer == IF pc = "idle" THEN outcome ELSE None

(* A step inside a call, or inside drop, shows the caller nothing.         *)
LEMMA InsideStutters ==
  ASSUME CallInv,
         \/ SessionStep \/ SubmitStep \/ ReadStep \/ Terminate \/ GpuFinishes
  PROVE  UNCHANGED <<Status, req, Answer>>
<1> USE DEF CallInv, IInv
<1>1. CASE SessionStep
  <2>1. pc \notin {"closed", "idle"} /\ pc' \notin {"closed", "idle"}
        /\ UNCHANGED <<req, dropping>>
    BY <1>1 DEF SessionStep, ReuseSession, ReplaceSession, DestroyContext,
       DestroySurfaces, DestroyConfig, CreateConfig, CreateSurfaces, CreateContext, localVars
  <2> QED
    BY <2>1 DEF Status, Answer
<1>2. CASE SubmitStep
  <2>1. pc \notin {"closed", "idle"} /\ pc' \notin {"closed", "idle"}
        /\ UNCHANGED <<req, dropping>>
    BY <1>2 DEF SubmitStep, BuildParams, PushBuffer, BeginPicture, RenderPicture,
       EndPicture, DestroyBuffer, BuffersDestroyed, SyncSurface, localVars
  <2> QED
    BY <2>1 DEF Status, Answer
<1>3. CASE ReadStep
  <2>1. pc \notin {"closed", "idle"} /\ pc' \notin {"closed", "idle"}
        /\ UNCHANGED <<req, dropping>>
    BY <1>3 DEF ReadStep, DeriveImage, DropDerived, CreateImage, GetImage,
       MapImage, CopyPlanes, UnmapImage, DestroyImage, localVars
  <2> QED
    BY <2>1 DEF Status, Answer
<1>4. CASE Terminate
  BY <1>4 DEF Terminate, ControlInv, localVars, Status, Answer
<1>5. CASE GpuFinishes
  BY <1>5 DEF GpuFinishes, localVars, Status, Answer
<1> QED
  BY <1>1, <1>2, <1>3, <1>4, <1>5

(* Every step of the backend is a step of the contract, or invisible.      *)
LEMMA NextContract ==
  CallInv /\ [Next]_vars => [Contract!Next]_(Contract!abstractVars)
<1> SUFFICES ASSUME CallInv, [Next]_vars
             PROVE  Contract!Next \/ UNCHANGED <<Status, req, Answer>>
  BY DEF Contract!abstractVars, Status, Answer
<1>1. CASE Open
  BY <1>1 DEF Open, Contract!Next, Contract!Open
<1>2. CASE \E r \in Request : DecodeStill(r)
  BY <1>2 DEF DecodeStill, Contract!Next, Contract!Call, CallInv, IInv, ControlInv, Destroying
<1>3. CASE Return
  <2>1. ~dropping /\ dropping' = dropping /\ outcome' \in Contract!Allowed(req)
    BY <1>3 DEF Return, CallInv, IInv, ControlInv, Destroying, OutcomeInv, Replied, localVars
  <2> QED
    BY <1>3, <2>1 DEF Return, Contract!Next, Contract!Return, localVars
<1>4. CASE Drop
  BY <1>4 DEF Drop, Contract!Next, Contract!Close, CallInv, IInv, ControlInv, Destroying
<1>5. CASE SessionStep \/ SubmitStep \/ ReadStep \/ Terminate \/ GpuFinishes
  BY <1>5, InsideStutters
<1>6. CASE UNCHANGED vars
  BY <1>6 DEF vars, localVars, Status, Answer
<1> QED
  BY <1>1, <1>2, <1>3, <1>4, <1>5, <1>6 DEF Next, Step

(* VaapiStillDecoder is a HwStillDecoder: a request outside the stated     *)
(* scope is refused as its first failing check says, and a frame that is   *)
(* returned is the picture of that request in the format of its bit depth, *)
(* whatever driver calls failed before and whichever session was reused.   *)
THEOREM BackendImplementsContract == Spec => ImplementsContract
<1>1. Init => Contract!Init
  BY DEF Init, Contract!Init
<1> QED
  BY <1>1, CallInvariant, NextContract, PTL DEF Spec, ImplementsContract, Contract!Spec
=============================================================================
