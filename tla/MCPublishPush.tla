---------------------------- MODULE MCPublishPush ----------------------------
(* Small instances of PublishPush: the reader thread and an executor       *)
(* thread, which differ in nothing, beside the event loop.                 *)
EXTENDS PublishPush

CONSTANTS reader, executor
=============================================================================
