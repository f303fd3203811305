---------------------------- MODULE MCBootLayers ----------------------------
(* Instances of BootLayers for TLC.                                        *)
EXTENDS BootLayers

AllMedia == {{}, {"dat"}, {"vda2"}, {"part"}, {"dat", "part"}, {"host"}}
OnePartition == {{"part"}, {"vda2"}}
DataPartition == {{"part"}}
=============================================================================
