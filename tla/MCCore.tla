-------------------------------- MODULE MCCore ---------------------------------
(***************************************************************************)
(* Small sets of commands for the clients of the core.                     *)
(***************************************************************************)
EXTENDS CoreRecording, TLC

\* CCore::skydip and CCore::peakerScan.
Skydip == <<"antenna", "wait", "antenna", "wait", "init", "scan", "record", "terminate">>

\* A macro and the operations that can be commanded over it.
Mixed == {Skydip, <<"init">>, <<"record">>, <<"terminate">>}

\* A recording by hand.
RecordOnly == {<<"init", "record">>}

MixedFaults == {"backend", "recorder", "telescope", "close"}
NoFaults == {}
================================================================================
