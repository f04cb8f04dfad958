--------------------------- MODULE MCEventPipeline ---------------------------
(* A small instance of EventPipeline.                                        *)
EXTENDS EventPipeline

S(kind, fate, traits) == [kind |-> kind, fate |-> fate, traits |-> traits]

(* For safety: an event of two messages and one of one message, in different *)
(* batches, a filtered event, an unparsable one, one that no batch takes.    *)
MCShapes ==
  {S("exec", "kept", {}),
   S("file", "kept", {"sensitive"}),
   S("exec", "noise", {}),
   S("file", "malformed", {}),
   S("other", "kept", {})}

(* For liveness: what each of the three flushes sends.                       *)
MCFewShapes ==
  {S("exec",  "kept", {}),
   S("file",  "kept", {"library"}),
   S("net",   "kept", {"connect"})}
=============================================================================
