--------------------------- MODULE MCChannelRelease ---------------------------
(* Model values for ChannelRelease.                                            *)
EXTENDS ChannelRelease

MCVersions == 1..2

MCOneVersion == {1}
=============================================================================
