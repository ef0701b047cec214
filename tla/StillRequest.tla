---------------------------- MODULE StillRequest ----------------------------
(***************************************************************************)
(* The vocabulary shared by the contract of a hardware still decoder       *)
(* (StillDecoder) and by the libva backend that implements it              *)
(* (VaapiDecoder): what a request asks for, how decode_hevc and decode_av1 *)
(* screen it before they touch the GPU, the session key it needs, and the  *)
(* replies a caller can get.                                               *)
(*                                                                         *)
(* A request is the outcome of parsing its bytes.  The parsers themselves  *)
(* are not part of this module: the fields record what each of them finds. *)
(***************************************************************************)
EXTENDS Naturals

CONSTANTS
  Request,  \* the still pictures a caller may ask for (records, see below)
  Codec,    \* the codec this decoder was opened for
  Caps,     \* the profiles the cached probe found at the VLD entry point
  Size,     \* coded picture sizes
  None      \* "no such handle, picture or value"

Profile == {"main", "main10", "av1"}
Fourcc  == {"NV12", "P010"}

(***************************************************************************)
(* One coded picture, as the parsers see it:                               *)
(*   scope    parameter sets / sequence header parse and are in scope      *)
(*   depth    bits per sample (for HEVC the larger of luma and chroma)     *)
(*   headers  every slice header (HEVC) parses                             *)
(*   units    coded slices (HEVC) or tiles (AV1)                           *)
(*   params   build_pic_param accepts the picture                          *)
(*   visible  the conformance window leaves at least one sample            *)
(*   grain    AV1 film grain is to be applied                              *)
(***************************************************************************)
RequestShape ==
  [codec: {"hevc", "av1"}, scope: BOOLEAN, depth: {8, 9, 10, 12},
   headers: BOOLEAN, units: Nat \ {0}, params: BOOLEAN, visible: BOOLEAN,
   grain: BOOLEAN, size: Size]

ASSUME RequestAssumption ==
  /\ Request \subseteq RequestShape
  /\ \A r \in Request :
       /\ r.grain => r.codec = "av1"
       /\ r.codec = "av1" => r.visible /\ r.headers
       /\ r.codec = "av1" => r.depth # 9

(* decoder(codec) hands out a decoder only for a codec the probe found.    *)
ASSUME CapsAssumption ==
  /\ Caps \subseteq Profile
  /\ \/ Codec = "hevc" /\ Caps \cap {"main", "main10"} # {}
     \/ Codec = "av1" /\ "av1" \in Caps

ASSUME NoneAssumption ==
  /\ None \notin Request
  /\ None \notin Profile \cup Fourcc \cup Size
  /\ None \notin [of: Request, grain: BOOLEAN]

-----------------------------------------------------------------------------
(* The profile and the surface format a picture needs.                     *)
ProfileOf(r) ==
  IF r.codec = "av1" THEN "av1" ELSE IF r.depth = 8 THEN "main" ELSE "main10"

FourccOf(r) == IF r.depth = 8 THEN "NV12" ELSE "P010"

(* SessionKey: everything two pictures must share to share a session.      *)
(* (The RT format is a function of the fourcc.)                            *)
KeyOf(r) ==
  [profile  |-> ProfileOf(r),
   size     |-> r.size,
   fourcc   |-> FourccOf(r),
   surfaces |-> IF r.grain THEN 2 ELSE 1]

Key == [profile: Profile, size: Size, fourcc: Fourcc, surfaces: {1, 2}]

(* create_buffer calls of one picture: its parameters, then a parameter    *)
(* and a data buffer per slice or tile.                                    *)
BufferCount(r) == 1 + 2 * r.units

-----------------------------------------------------------------------------
(* The checks of decode_still, decode_hevc and decode_av1 that precede the *)
(* session, in their order: the codec of the request, the stream and its   *)
(* bit depth, the driver's profile, and only then the slice headers.       *)
Screen(r) ==
  IF r.codec # Codec \/ ~r.scope \/ r.depth \notin {8, 9, 10}
  THEN "decode"
  ELSE IF ProfileOf(r) \notin Caps
  THEN "unavailable"
  ELSE IF r.headers THEN "ok" ELSE "decode"

(* The decoded samples of a request: with or without film grain.           *)
Picture == [of: Request, grain: BOOLEAN]
PictureOf(r) == [of |-> r, grain |-> r.grain]

(* What decode_still returns.                                              *)
Frame(p, f) == [kind |-> "frame", picture |-> p, fourcc |-> f]
Error(k)    == [kind |-> k, picture |-> None, fourcc |-> None]

Errors == {Error(k) : k \in {"decode", "unavailable", "invalid"}}
Reply  == {Frame(p, f) : p \in Picture \cup {None}, f \in Fourcc} \cup Errors
=============================================================================
