---------------------------- MODULE VaapiDecoder ----------------------------
(***************************************************************************)
(* VaapiStillDecoder (crates/rawshift-hwdec/src/vaapi/mod.rs): one decoder *)
(* on its own VA display, from decoder() to its drop, one driver call per  *)
(* step, every driver call free to fail.                                   *)
(*                                                                         *)
(* The driver's side (external: libva) is a table of live objects per      *)
(* kind.  A handle is an Id the driver chooses among the free ones, so a   *)
(* destroyed handle may be handed out again, and Id exhausted is a driver  *)
(* out of memory.  Submitted pictures are decoded in order by the GPU, at  *)
(* any later moment; at most MaxJobs of them are in flight.                *)
(***************************************************************************)
EXTENDS StillRequest, Sequences

CONSTANTS
  Id,       \* handles the driver can hand out, per kind of object
  MaxJobs   \* pictures the driver queues before vaEndPicture fails

(* A stored session, the handles in locals, and what the driver knows of   *)
(* each kind of object.                                                    *)
SessionShape == [key: Key, config: Id, context: Id, decode: Id, display: Id \cup {None}]
WorkShape    == [config: Id \cup {None}, context: Id \cup {None},
                 decode: Id \cup {None}, display: Id \cup {None}]
SurfaceShape == [size: Size, fourcc: Fourcc, holds: Picture \cup {None}]
ContextShape == [config: Id, targets: SUBSET Id, size: Size, open: BOOLEAN]
ImageShape   == [fourcc: Fourcc \cup {None}, source: Id \cup {None},
                 copied: Picture \cup {None}]
JobShape     == [of: Request, decode: Id, display: Id \cup {None}]

ASSUME DriverAssumption ==
  /\ MaxJobs \in Nat \ {0}
  /\ None \notin Id
  /\ None \notin SessionShape /\ None \notin SurfaceShape
  /\ None \notin ContextShape /\ None \notin ImageShape
  /\ None \notin Reply

VARIABLES
  \* the driver
  config,   \* live configs: their profile
  surface,  \* live surfaces: size, format and the picture they hold
  context,  \* live contexts: their config, render targets, picture open?
  buffer,   \* live parameter and data buffers
  image,    \* live images: format, source surface or copied picture
  mapped,   \* images whose data buffer is mapped
  jobs,     \* submitted pictures the GPU has not finished
  \* the decoder
  pc,       \* the driver call decode_still or drop makes next
  session,  \* self.session
  dropping, \* Drop::drop has started
  \* the locals of a call
  req,      \* the request
  work,     \* handles created or taken from self.session, not stored
  left,     \* create_buffer calls still to make
  queue,    \* buffers: Vec<VABufferID>
  img,      \* the image being read back
  outcome   \* the Result to return, None while undecided

driverVars == <<config, surface, context, buffer, image, mapped, jobs>>
localVars  == <<req, work, left, queue, img, outcome>>
vars == <<driverVars, pc, session, dropping, localVars>>

-----------------------------------------------------------------------------
(* Helpers                                                                 *)

Live(table)  == {i \in Id : table[i] # None}
Free(table)  == {i \in Id : table[i] = None}
NoWork       == [config |-> None, context |-> None, decode |-> None, display |-> None]
Handles(s)   == [config |-> s.config, context |-> s.context,
                 decode |-> s.decode, display |-> s.display]
Surfaces(w)  == {w.decode, w.display} \ {None}

(* What a surface of a session shows once a job for request r is done: the *)
(* decoded picture in the decode surface, the grained one in the other.    *)
Holding(j, i) == [of |-> j.of, grain |-> i = j.display]

(* The surface read back: the grained picture has a surface of its own.    *)
ReadFrom == IF req.grain THEN session.display ELSE session.decode

(* Leave the body of the call with a result decided.                       *)
Fail(k) == outcome' = Error(k)

Init ==
  /\ config = [i \in Id |-> None] /\ surface = [i \in Id |-> None]
  /\ context = [i \in Id |-> None] /\ image = [i \in Id |-> None]
  /\ buffer = {} /\ mapped = {} /\ jobs = <<>>
  /\ pc = "closed" /\ session = None /\ dropping = FALSE
  /\ req = None /\ work = NoWork /\ left = 0 /\ queue = {}
  /\ img = None /\ outcome = None

-----------------------------------------------------------------------------
(* decoder(): a decoder on a freshly initialised display, no session yet.  *)
Open ==
  /\ pc = "closed"
  /\ pc' = "idle"
  /\ req' = None /\ outcome' = None /\ dropping' = FALSE
  /\ UNCHANGED <<driverVars, session, work, left, queue, img>>

(* decode_still up to session(): everything that needs no driver call.     *)
DecodeStill(r) ==
  /\ pc = "idle"
  /\ req' = r
  /\ IF Screen(r) = "ok"
     THEN pc' = "session" /\ outcome' = None
     ELSE pc' = "return" /\ Fail(Screen(r))
  /\ UNCHANGED <<driverVars, session, dropping, work, left, queue, img>>

Return ==
  /\ pc = "return"
  /\ pc' = "idle"
  /\ UNCHANGED <<driverVars, session, dropping, localVars>>

-----------------------------------------------------------------------------
(* session(key): reuse, or destroy and recreate                            *)

(* Mutant: the pixel format is forgotten in SessionKey.                    *)
ReuseSession_AnyFormat ==
  /\ pc = "session" /\ session # None
  /\ [session.key EXCEPT !.fourcc = None, !.profile = None]
       = [KeyOf(req) EXCEPT !.fourcc = None, !.profile = None]
  /\ pc' = "params"
  /\ UNCHANGED <<driverVars, session, dropping, localVars>>

ReuseSession ==
  /\ pc = "session" /\ session # None
  /\ session.key = KeyOf(req)
  /\ pc' = "params"
  /\ UNCHANGED <<driverVars, session, dropping, localVars>>

(* Mutant: the surfaces are destroyed first.                               *)
ReplaceSession_SurfacesFirst ==
  /\ pc = "session"
  /\ session # None => session.key # KeyOf(req)
  /\ IF session = None
     THEN pc' = "createConfig" /\ UNCHANGED work
     ELSE pc' = "destroySurfaces" /\ work' = Handles(session)
  /\ session' = None
  /\ UNCHANGED <<driverVars, dropping, req, left, queue, img, outcome>>

(* destroy_session takes the old session out before it destroys it.        *)
ReplaceSession ==
  /\ pc = "session"
  /\ session # None => session.key # KeyOf(req)
  /\ IF session = None
     THEN pc' = "createConfig" /\ UNCHANGED work
     ELSE pc' = "destroyContext" /\ work' = Handles(session)
  /\ session' = None
  /\ UNCHANGED <<driverVars, dropping, req, left, queue, img, outcome>>

DestroyContext ==
  /\ pc = "destroyContext"
  /\ context' = [context EXCEPT ![work.context] = None]
  /\ work' = [work EXCEPT !.context = None]
  /\ pc' = "destroySurfaces"
  /\ UNCHANGED <<config, surface, buffer, image, mapped, jobs,
                 session, dropping, req, left, queue, img, outcome>>

(* Destroying a surface cancels what the GPU still has to write into it.   *)
DestroySurfaces ==
  /\ pc = "destroySurfaces"
  /\ surface' = [i \in Id |-> IF i \in Surfaces(work) THEN None ELSE surface[i]]
  /\ jobs' = <<>>
  /\ work' = [work EXCEPT !.decode = None, !.display = None]
  /\ pc' = "destroyConfig"
  /\ UNCHANGED <<config, context, buffer, image, mapped,
                 session, dropping, req, left, queue, img, outcome>>

(* The end of destroy_session, in drop and in session(), and of session()'s *)
(* clean-up after a failed creation.                                       *)
DestroyConfig ==
  /\ pc = "destroyConfig"
  /\ config' = [config EXCEPT ![work.config] = None]
  /\ work' = [work EXCEPT !.config = None]
  /\ pc' = IF dropping THEN "terminate"
           ELSE IF outcome # None THEN "return" ELSE "createConfig"
  /\ UNCHANGED <<surface, context, buffer, image, mapped, jobs,
                 session, dropping, req, left, queue, img, outcome>>

CreateConfig ==
  /\ pc = "createConfig"
  /\ \/ \E i \in Free(config) :
          /\ config' = [config EXCEPT ![i] = KeyOf(req).profile]
          /\ work' = [work EXCEPT !.config = i]
          /\ pc' = "createSurfaces"
          /\ UNCHANGED outcome
     \/ /\ Fail("decode")
        /\ pc' = "return"
        /\ UNCHANGED <<config, work>>
  /\ UNCHANGED <<surface, context, buffer, image, mapped, jobs,
                 session, dropping, req, left, queue, img>>

(* Mutant: a failed vaCreateSurfaces returns without destroying the config. *)
CreateSurfaces_NoCleanUp ==
  LET key   == KeyOf(req)
      fresh == [size |-> key.size, fourcc |-> key.fourcc, holds |-> None]
  IN
  /\ pc = "createSurfaces"
  /\ \/ \E i \in Free(surface), j \in Free(surface) \cup {None} :
          /\ i # j
          /\ (j # None) <=> (key.surfaces = 2)
          /\ surface' = [s \in Id |-> IF s \in {i, j} THEN fresh ELSE surface[s]]
          /\ work' = [work EXCEPT !.decode = i, !.display = j]
          /\ pc' = "createContext"
          /\ UNCHANGED outcome
     \/ /\ Fail("decode")
        /\ pc' = "return" /\ work' = NoWork
        /\ UNCHANGED surface
  /\ UNCHANGED <<config, context, buffer, image, mapped, jobs,
                 session, dropping, req, left, queue, img>>

CreateSurfaces ==
  LET key   == KeyOf(req)
      fresh == [size |-> key.size, fourcc |-> key.fourcc, holds |-> None]
  IN
  /\ pc = "createSurfaces"
  /\ \/ \E i \in Free(surface), j \in Free(surface) \cup {None} :
          /\ i # j
          /\ (j # None) <=> (key.surfaces = 2)
          /\ surface' = [s \in Id |-> IF s \in {i, j} THEN fresh ELSE surface[s]]
          /\ work' = [work EXCEPT !.decode = i, !.display = j]
          /\ pc' = "createContext"
          /\ UNCHANGED outcome
     \/ /\ Fail("decode")
        /\ pc' = "destroyConfig"
        /\ UNCHANGED <<surface, work>>
  /\ UNCHANGED <<config, context, buffer, image, mapped, jobs,
                 session, dropping, req, left, queue, img>>

(* Mutant: the session is stored before the context's status is looked at. *)
CreateContext_StoreFirst ==
  /\ pc = "createContext"
  /\ session' = [key |-> KeyOf(req), config |-> work.config, context |-> None,
                 decode |-> work.decode, display |-> work.display]
  /\ work' = NoWork
  /\ Fail("decode")
  /\ pc' = "return"
  /\ UNCHANGED <<driverVars, dropping, req, left, queue, img>>

CreateContext ==
  /\ pc = "createContext"
  /\ \/ \E i \in Free(context) :
          /\ context' = [context EXCEPT ![i] =
               [config |-> work.config, targets |-> Surfaces(work),
                size |-> KeyOf(req).size, open |-> FALSE]]
          /\ session' = [key |-> KeyOf(req), config |-> work.config,
                         context |-> i, decode |-> work.decode,
                         display |-> work.display]
          /\ work' = NoWork
          /\ pc' = "params"
          /\ UNCHANGED outcome
     \/ /\ Fail("decode")
        /\ pc' = "destroySurfaces"
        /\ UNCHANGED <<context, session, work>>
  /\ UNCHANGED <<config, surface, buffer, image, mapped, jobs,
                 dropping, req, left, queue, img>>

-----------------------------------------------------------------------------
(* The buffers of one picture                                              *)

BuildParams ==
  /\ pc = "params"
  /\ IF req.params
     THEN /\ pc' = "push" /\ left' = BufferCount(req)
          /\ UNCHANGED outcome
     ELSE /\ pc' = "return" /\ Fail("decode")
          /\ UNCHANGED left
  /\ UNCHANGED <<driverVars, session, dropping, req, work, queue, img>>

(* push: a failed vaCreateBuffer leaves decode_* at once, and the Vec of   *)
(* ids with it; nothing destroys the buffers created before.               *)
PushBuffer ==
  /\ pc = "push" /\ left > 0
  /\ \/ \E b \in Id \ buffer :
          /\ buffer' = buffer \cup {b}
          /\ queue' = queue \cup {b}
          /\ left' = left - 1
          /\ UNCHANGED <<pc, outcome>>
     \/ /\ Fail("decode")
        /\ pc' = "return" /\ queue' = {} /\ left' = 0
        /\ UNCHANGED buffer
  /\ UNCHANGED <<config, surface, context, image, mapped, jobs,
                 session, dropping, req, work, img>>

-----------------------------------------------------------------------------
(* submit: begin, render, end, destroy the buffers, sync                   *)

(* The driver may refuse, or (re)start the context's picture.              *)
BeginPicture ==
  /\ pc = "push" /\ left = 0
  /\ \/ /\ context' = [context EXCEPT ![session.context].open = TRUE]
        /\ pc' = "render"
        /\ UNCHANGED outcome
     \/ /\ Fail("decode")
        /\ pc' = "release"
        /\ UNCHANGED context
  /\ UNCHANGED <<config, surface, buffer, image, mapped, jobs,
                 session, dropping, req, work, left, queue, img>>

(* Mutant: the error path of vaRenderPicture forgets destroy_buffers.      *)
RenderPicture_KeepBuffers ==
  /\ pc = "render"
  /\ \/ pc' = "end" /\ UNCHANGED <<queue, outcome>>
     \/ pc' = "return" /\ queue' = {} /\ Fail("decode")
  /\ UNCHANGED <<driverVars, session, dropping, req, work, left, img>>

RenderPicture ==
  /\ pc = "render"
  /\ \/ pc' = "end" /\ UNCHANGED outcome
     \/ pc' = "release" /\ Fail("decode")
  /\ UNCHANGED <<driverVars, session, dropping, req, work, left, queue, img>>

EndPicture ==
  /\ pc = "end"
  /\ context' = [context EXCEPT ![session.context].open = FALSE]
  /\ pc' = "release"
  /\ \/ /\ Len(jobs) < MaxJobs
        /\ jobs' = Append(jobs, [of |-> req, decode |-> session.decode,
                                 display |-> session.display])
        /\ UNCHANGED outcome
     \/ /\ Fail("decode")
        /\ UNCHANGED jobs
  /\ UNCHANGED <<config, surface, buffer, image, mapped,
                 session, dropping, req, work, left, queue, img>>

(* destroy_buffers, one buffer at a time.                                  *)
DestroyBuffer ==
  /\ pc = "release"
  /\ \E b \in queue :
       /\ buffer' = buffer \ {b}
       /\ queue' = queue \ {b}
  /\ UNCHANGED <<config, surface, context, image, mapped, jobs,
                 pc, session, dropping, req, work, left, img, outcome>>

BuffersDestroyed ==
  /\ pc = "release" /\ queue = {}
  /\ pc' = IF outcome = None THEN "sync" ELSE "return"
  /\ UNCHANGED <<driverVars, session, dropping, localVars>>

(* Mutant: the read-back does not wait for the GPU.                        *)
SyncSurface_NoWait ==
  /\ pc = "sync"
  /\ pc' = "derive"
  /\ UNCHANGED <<driverVars, session, dropping, localVars>>

(* vaSyncSurface waits for the surface's pictures; decode_hevc then looks  *)
(* at its conformance window.                                              *)
SyncSurface ==
  /\ pc = "sync"
  /\ \/ /\ jobs = <<>>
        /\ IF req.visible
           THEN pc' = "derive" /\ UNCHANGED outcome
           ELSE pc' = "return" /\ Fail("decode")
     \/ pc' = "return" /\ Fail("decode")
  /\ UNCHANGED <<driverVars, session, dropping, req, work, left, queue, img>>

(* The GPU finishes the oldest submitted picture.                          *)
GpuFinishes ==
  /\ jobs # <<>>
  /\ LET j == Head(jobs) IN
       surface' = [i \in Id |->
         IF i \in Surfaces(j) /\ surface[i] # None
         THEN [surface[i] EXCEPT !.holds = Holding(j, i)]
         ELSE surface[i]]
  /\ jobs' = Tail(jobs)
  /\ UNCHANGED <<config, context, buffer, image, mapped,
                 pc, session, dropping, localVars>>

-----------------------------------------------------------------------------
(* read_surface and copy_image_planes                                      *)

(* A derived image aliases the surface.                                    *)
DeriveImage ==
  /\ pc = "derive"
  /\ \/ \E i \in Free(image), f \in Fourcc \cup {None} :
          /\ image' = [image EXCEPT ![i] =
               [fourcc |-> f, source |-> ReadFrom, copied |-> None]]
          /\ img' = i
          /\ pc' = IF f = KeyOf(req).fourcc THEN "map" ELSE "dropDerived"
     \/ /\ pc' = "createImage"
        /\ UNCHANGED <<image, img>>
  /\ UNCHANGED <<config, surface, context, buffer, mapped, jobs,
                 session, dropping, req, work, left, queue, outcome>>

(* Mutant: an unexpected layout makes read_surface derive once more.       *)
DropDerived_Retry ==
  /\ pc = "dropDerived"
  /\ image' = [image EXCEPT ![img] = None]
  /\ img' = None
  /\ pc' = "derive"
  /\ UNCHANGED <<config, surface, context, buffer, mapped, jobs,
                 session, dropping, req, work, left, queue, outcome>>

DropDerived ==
  /\ pc = "dropDerived"
  /\ image' = [image EXCEPT ![img] = None]
  /\ img' = None
  /\ pc' = "createImage"
  /\ UNCHANGED <<config, surface, context, buffer, mapped, jobs,
                 session, dropping, req, work, left, queue, outcome>>

(* The driver is asked for the wanted layout and reports the one it chose. *)
CreateImage ==
  /\ pc = "createImage"
  /\ \/ \E i \in Free(image), f \in Fourcc \cup {None} :
          /\ image' = [image EXCEPT ![i] =
               [fourcc |-> f, source |-> None, copied |-> None]]
          /\ img' = i
          /\ pc' = "getImage"
          /\ UNCHANGED outcome
     \/ /\ Fail("decode")
        /\ pc' = "return"
        /\ UNCHANGED <<image, img>>
  /\ UNCHANGED <<config, surface, context, buffer, mapped, jobs,
                 session, dropping, req, work, left, queue>>

GetImage ==
  /\ pc = "getImage"
  /\ \/ /\ image' = [image EXCEPT ![img].copied = surface[ReadFrom].holds]
        /\ pc' = "map"
        /\ UNCHANGED outcome
     \/ /\ Fail("decode")
        /\ pc' = "destroyImage"
        /\ UNCHANGED image
  /\ UNCHANGED <<config, surface, context, buffer, mapped, jobs,
                 session, dropping, req, work, left, queue, img>>

(* An image with too few planes or an unknown format is not even mapped.   *)
(* A driver that reports success and maps to null (`mapped.is_null()`) is   *)
(* left out: the code then destroys the image without unmapping it.         *)
MapImage ==
  /\ pc = "map"
  /\ \/ /\ image[img].fourcc # None
        /\ mapped' = mapped \cup {img}
        /\ pc' = "copy"
        /\ UNCHANGED outcome
     \/ /\ Fail("decode")
        /\ pc' = "destroyImage"
        /\ UNCHANGED mapped
  /\ UNCHANGED <<config, surface, context, buffer, image, jobs,
                 session, dropping, req, work, left, queue, img>>

(* Mutant: a plane that is too small returns past vaUnmapBuffer.           *)
CopyPlanes_EarlyReturn ==
  /\ pc = "copy"
  /\ Fail("decode")
  /\ pc' = "destroyImage"
  /\ UNCHANGED <<driverVars, session, dropping, req, work, left, queue, img>>

(* copy_plane may find the mapping too small; DecodedFrame::new refuses a  *)
(* layout that cannot carry the picture's bit depth.                       *)
CopyPlanes ==
  LET i       == image[img]
      content == IF i.source = None THEN i.copied ELSE surface[i.source].holds
  IN
  /\ pc = "copy"
  /\ \/ IF (i.fourcc = "NV12") <=> (req.depth = 8)
        THEN outcome' = Frame(content, i.fourcc)
        ELSE Fail("invalid")
     \/ Fail("decode")
  /\ pc' = "unmap"
  /\ UNCHANGED <<driverVars, session, dropping, req, work, left, queue, img>>

UnmapImage ==
  /\ pc = "unmap"
  /\ mapped' = mapped \ {img}
  /\ pc' = "destroyImage"
  /\ UNCHANGED <<config, surface, context, buffer, image, jobs,
                 session, dropping, localVars>>

DestroyImage ==
  /\ pc = "destroyImage"
  /\ image' = [image EXCEPT ![img] = None]
  /\ img' = None
  /\ pc' = "return"
  /\ UNCHANGED <<config, surface, context, buffer, mapped, jobs,
                 session, dropping, req, work, left, queue, outcome>>

-----------------------------------------------------------------------------
(* Mutant: the fields are dropped without destroy_session.                 *)
Drop_DisplayOnly ==
  /\ pc = "idle"
  /\ dropping' = TRUE
  /\ req' = None /\ outcome' = None
  /\ pc' = "terminate"
  /\ UNCHANGED <<driverVars, session, work, left, queue, img>>

(* Drop::drop of the decoder destroys the session, and the display after   *)
(* it, as the fields are dropped.                                          *)
Drop ==
  /\ pc = "idle"
  /\ dropping' = TRUE
  /\ req' = None /\ outcome' = None
  /\ IF session = None
     THEN pc' = "terminate" /\ UNCHANGED work
     ELSE pc' = "destroyContext" /\ work' = Handles(session)
  /\ session' = None
  /\ UNCHANGED <<driverVars, left, queue, img>>

(* vaTerminate: the driver frees whatever is left on the display.          *)
Terminate ==
  /\ pc = "terminate"
  /\ config' = [i \in Id |-> None] /\ surface' = [i \in Id |-> None]
  /\ context' = [i \in Id |-> None] /\ image' = [i \in Id |-> None]
  /\ buffer' = {} /\ mapped' = {} /\ jobs' = <<>>
  /\ pc' = "closed"
  /\ dropping' = FALSE
  /\ UNCHANGED <<session, localVars>>

-----------------------------------------------------------------------------
SessionStep == ReuseSession \/ ReplaceSession \/ DestroyContext
               \/ DestroySurfaces \/ DestroyConfig \/ CreateConfig
               \/ CreateSurfaces \/ CreateContext
SubmitStep  == BuildParams \/ PushBuffer \/ BeginPicture \/ RenderPicture
               \/ EndPicture \/ DestroyBuffer \/ BuffersDestroyed \/ SyncSurface
ReadStep    == DeriveImage \/ DropDerived \/ CreateImage \/ GetImage \/ MapImage
               \/ CopyPlanes \/ UnmapImage \/ DestroyImage

(* What the calling thread does once it is inside decode_still or drop.    *)
Step == SessionStep \/ SubmitStep \/ ReadStep \/ Return \/ Terminate

Next ==
  \/ Open
  \/ \E r \in Request : DecodeStill(r)
  \/ Step
  \/ GpuFinishes
  \/ Drop

Spec == Init /\ [][Next]_vars

(* A thread inside a call keeps running, and driver calls return (with an  *)
(* error, if need be: vaSyncSurface does not depend on the GPU to give up). *)
(* Nobody has to call again.                                               *)
FairSpec == Spec /\ WF_vars(Step)

-----------------------------------------------------------------------------
(* Invariants                                                              *)

Location == {"closed", "idle", "session", "destroyContext", "destroySurfaces",
  "destroyConfig", "createConfig", "createSurfaces", "createContext", "params",
  "push", "render", "end", "release", "sync", "derive", "dropDerived",
  "createImage", "getImage", "map", "copy", "unmap", "destroyImage", "return",
  "terminate"}

(* Every variable has the type its Rust counterpart has; handles are Ids.  *)
TypeOK ==
  /\ config  \in [Id -> Profile \cup {None}]
  /\ surface \in [Id -> SurfaceShape \cup {None}]
  /\ context \in [Id -> ContextShape \cup {None}]
  /\ image   \in [Id -> ImageShape \cup {None}]
  /\ buffer \subseteq Id /\ mapped \subseteq Id /\ queue \subseteq Id
  /\ jobs \in Seq(JobShape)
  /\ pc \in Location /\ dropping \in BOOLEAN
  /\ session \in SessionShape \cup {None}
  /\ req \in Request \cup {None}
  /\ work \in WorkShape
  /\ left \in Nat
  /\ img \in Id \cup {None}
  /\ outcome \in Reply \cup {None}

(* The handles of one kind the decoder still holds, stored or in a local.  *)
Held(part) ==
  ({work[part]} \cup IF session = None THEN {} ELSE {session[part]}) \ {None}

(* Whatever call failed and wherever: the driver objects that exist are    *)
(* exactly those the decoder still holds a handle to.  Nothing is leaked   *)
(* by an early return, and no handle is kept of an object already gone     *)
(* (session, destroy_session, read_surface).  Buffers are the exception,   *)
(* see EveryBufferDestroyed.                                               *)
LedgerExact ==
  /\ Live(config) = Held("config")
  /\ Live(context) = Held("context")
  /\ Live(surface) = Held("decode") \cup Held("display")
  /\ Live(image) = {img} \ {None}
  /\ queue \subseteq buffer

(* "context before the surfaces it renders to, as libva requires"          *)
(* (destroy_session): a live context never has a dead target or config.    *)
TargetsOutliveContext ==
  \A c \in Live(context) :
    /\ context[c].config \in Live(config)
    /\ context[c].targets \subseteq Live(surface)

(* The driver objects of session s are those request r needs.              *)
Serves(s, r) ==
  /\ config[s.config] = ProfileOf(r)
  /\ context[s.context].size = r.size
  /\ context[s.context].targets = Surfaces(s)
  /\ \A i \in Surfaces(s) : surface[i].size = r.size /\ surface[i].fourcc = FourccOf(r)
  /\ r.grain <=> s.display # None

(* From build_pic_param to the read-back a call works on a session whose   *)
(* objects were created for a picture like its own: a session kept from an *)
(* earlier call is reused only if nothing about it is stale.               *)
SessionServesRequest ==
  pc \in {"params", "push", "render", "end", "sync", "derive", "dropDerived",
          "createImage", "getImage", "map", "copy"}
    => session # None /\ Serves(session, req)

(* Between vaSyncSurface and the copy, the surface that is read holds the  *)
(* picture of this request, finished, and not that of an earlier tile      *)
(* decoded into the same session ("`surface` is synced", read_surface).    *)
ReadsOwnPicture ==
  pc \in {"derive", "dropDerived", "createImage", "getImage", "map", "copy"}
    => surface[ReadFrom].holds = PictureOf(req)

(* An image is unmapped before it is destroyed, on every path through      *)
(* read_surface and copy_image_planes.                                     *)
MappedImageLives == mapped \subseteq Live(image)

(* Drop order: when vaTerminate runs, nothing that was created on the      *)
(* display and stored in the decoder is left on it.                        *)
DisplayTerminatedLast ==
  pc = "terminate" =>
    Live(config) \cup Live(context) \cup Live(surface) \cup Live(image) = {}

(* Action property: once submit has been entered, an id leaves the Vec of  *)
(* buffers only by being destroyed, whichever of its calls fails.          *)
SubmitDestroysBuffers ==
  [][pc # "push" => queue \ queue' \subseteq buffer \ buffer']_vars

(* "each id was created on `dpy` by create_buffer and is destroyed exactly *)
(* once here" (submit): an id never leaves the Vec undestroyed.            *)
EveryBufferDestroyed ==
  [][queue \ queue' \subseteq buffer \ buffer']_vars

(* Liveness: every decode_still returns, every drop completes.             *)
CallReturns == pc \notin {"idle", "closed"} ~> pc \in {"idle", "closed"}

-----------------------------------------------------------------------------
(* The backend implements the contract of the trait: a step of the thread  *)
(* inside a call is invisible, entry, return and drop are not.             *)
Contract == INSTANCE StillDecoder WITH
  status  <- IF pc = "closed" \/ dropping THEN "closed"
             ELSE IF pc = "idle" THEN "ready" ELSE "busy",
  request <- req,
  answer  <- IF pc = "idle" THEN outcome ELSE None

ImplementsContract == Contract!Spec

-----------------------------------------------------------------------------
(* The inductive invariant behind the safety properties.  The properties   *)
(* themselves are not inductive: that the live objects are those the       *)
(* decoder holds says nothing of WHICH of its handles are set at each      *)
(* point of the code, nor that a stored session matches its key.           *)
Destroying  == {"destroyContext", "destroySurfaces", "destroyConfig"}
Creating    == {"createConfig", "createSurfaces", "createContext"}
HoldsImage  == {"dropDerived", "getImage", "map", "copy", "unmap", "destroyImage"}
UsesSession == {"params", "push", "render", "end", "release", "sync", "derive",
                "dropDerived", "createImage", "getImage", "map", "copy"}

(* Who is where: drop runs only the destructors, a call has a request,     *)
(* self.session is taken before any object of it is destroyed, and ids of  *)
(* buffers are held only from push to destroy_buffers.                     *)
ControlInv ==
  /\ dropping => pc \in Destroying \cup {"terminate"}
  /\ pc = "terminate" => dropping
  /\ pc \notin {"closed", "idle"} /\ ~dropping => req \in Request
  /\ pc \in Destroying \cup Creating \cup {"terminate", "closed"} => session = None
  /\ pc \in UsesSession => session # None /\ session.key = KeyOf(req)
  /\ pc \notin {"push", "render", "end", "release"} => queue = {}

(* Which handles the locals hold at each point of session() and            *)
(* destroy_session().                                                      *)
WorkInv ==
  /\ pc \notin Destroying \cup {"createSurfaces", "createContext"} => work = NoWork
  /\ pc \in Destroying \cup {"createSurfaces", "createContext"} => work.config \in Id
  /\ pc # "destroyContext" => work.context = None
  /\ pc = "destroyContext" => work.context \in Id
  /\ pc \in {"destroyContext", "destroySurfaces", "createContext"} =>
       work.decode \in Id /\ work.decode # work.display
  /\ pc \in {"destroyConfig", "createSurfaces"} =>
       work.decode = None /\ work.display = None

(* The image read_surface holds, that it is mapped only around the copy,   *)
(* and that a derived one aliases the surface to be read.                  *)
ImageInv ==
  /\ img # None <=> pc \in HoldsImage
  /\ mapped = IF pc \in {"copy", "unmap"} THEN {img} ELSE {}
  /\ pc = "copy" => image[img].fourcc # None
  /\ pc \in {"getImage", "map", "copy"} => image[img].source \in {None, ReadFrom}

(* The config and surfaces named by handles w are those key asks for.      *)
Objects(w, key) ==
  /\ config[w.config] = key.profile
  /\ \A i \in Surfaces(w) : surface[i].size = key.size /\ surface[i].fourcc = key.fourcc
  /\ w.decode # w.display
  /\ w.display # None <=> key.surfaces = 2

(* The context c renders to exactly these surfaces with this config.       *)
Renders(c, w) == context[c].config = w.config /\ context[c].targets = Surfaces(w)

SessionInv ==
  /\ session # None =>
       /\ Objects(session, session.key)
       /\ Renders(session.context, session)
       /\ context[session.context].size = session.key.size
  /\ pc = "createSurfaces" => config[work.config] = KeyOf(req).profile
  /\ pc = "createContext" => Objects(work, KeyOf(req))
  /\ pc = "destroyContext" => Renders(work.context, work)

IInv == TypeOK /\ ControlInv /\ WorkInv /\ ImageInv /\ SessionInv /\ LedgerExact

(* Behind ReadsOwnPicture: from vaEndPicture to vaSyncSurface the picture  *)
(* of the request is the last one submitted, or is done; the read-back     *)
(* starts with nothing in flight.                                          *)
Reading == {"derive", "dropDerived", "createImage", "getImage", "map", "copy"}
OwnJob  == [of |-> req, decode |-> session.decode, display |-> session.display]
OwnDone == surface[ReadFrom].holds = PictureOf(req)

PictureInv ==
  /\ pc \in Reading => jobs = <<>> /\ OwnDone
  /\ pc = "sync" \/ (pc = "release" /\ outcome = None) =>
       IF jobs = <<>> THEN OwnDone ELSE jobs[Len(jobs)] = OwnJob

(* Behind ImplementsContract: the result a call has decided, at each point *)
(* of it, is one the contract allows for the request.                      *)
Screened == pc \notin {"closed", "idle", "return"} /\ ~dropping
Replied  == {"unmap", "destroyImage", "return"}

OutcomeInv ==
  /\ Screened => Screen(req) = "ok"
  /\ Screened /\ pc \notin Replied => outcome \in {None, Error("decode")}
  /\ pc \in Replied => outcome \in Contract!Allowed(req)
  /\ pc \in {"map", "copy"} /\ image[img].source = None =>
       image[img].copied = PictureOf(req)

CallInv == IInv /\ PictureInv /\ OutcomeInv
=============================================================================
