--------------------------- MODULE MCVaapiDecoder ---------------------------
(***************************************************************************)
(* Small instances of VaapiDecoder: requests that share a session key,     *)
(* that differ in one component of it, and that fail each check.           *)
(***************************************************************************)
EXTENDS VaapiDecoder

Still(codec, size, depth, grain) ==
  [codec |-> codec, scope |-> TRUE, depth |-> depth, headers |-> TRUE,
   units |-> 1, params |-> TRUE, visible |-> TRUE, grain |-> grain, size |-> size]

(* A HEIC file: tiles of one size, a thumbnail of another, a 10-bit item   *)
(* (its own profile and format), and tiles that fail late.                 *)
Tile == Still("hevc", "tile", 8, FALSE)
HevcRequests ==
  {Tile, Still("hevc", "thumb", 8, FALSE), Still("hevc", "tile", 10, FALSE),
   [Tile EXCEPT !.visible = FALSE], [Tile EXCEPT !.params = FALSE],
   [Tile EXCEPT !.headers = FALSE], [Tile EXCEPT !.scope = FALSE],
   Still("av1", "tile", 8, FALSE)}

(* An AVIF file: film grain needs a second surface in the session.         *)
Av1Requests ==
  {Still("av1", "tile", 8, FALSE), Still("av1", "tile", 8, TRUE),
   Still("av1", "tile", 10, TRUE), Still("av1", "tile", 12, FALSE)}

OneTile == {Tile}

=============================================================================
