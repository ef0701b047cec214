-------------------------- MODULE MCVaapiDiscovery --------------------------
(***************************************************************************)
(* Two render nodes: the driver of the first decodes nothing of interest,  *)
(* that of the second 10-bit HEVC (but not 8-bit) and AV1.                 *)
(***************************************************************************)
EXTENDS VaapiDiscovery

OneDriver == <<{}, {"main10", "av1"}>>
=============================================================================
