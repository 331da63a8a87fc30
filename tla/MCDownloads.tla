---------------------------- MODULE MCDownloads ----------------------------
(* Model values for Downloads. *)
EXTENDS Downloads

CONSTANTS file, stream

MCFiles == {file}
MCStreams == {stream}
MCAsked == {0}
MCLevels == {0, 2}
=============================================================================
