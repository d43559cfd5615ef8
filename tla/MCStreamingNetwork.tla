------------------------- MODULE MCStreamingNetwork -------------------------
(* TLC instances of StreamingNetwork: one streamer, two viewers. *)
EXTENDS StreamingNetwork

CONSTANTS viewer1, viewer2

MCNodes == {streamer, viewer1, viewer2}

MCSegmentSizes == {1, 2, 3}
=============================================================================
