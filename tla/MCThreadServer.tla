---------------------------- MODULE MCThreadServer ----------------------------
(* The HTTP server with three clients, two threads' worth of stacks and three *)
(* descriptors.                                                              *)
EXTENDS ThreadServer, TLC

CONSTANTS c1, c2, c3, pic, txt

(* c1 asks for a list of images, or for a path whose copy in memory may not   *)
(* fit and whose page never does, or sends an odd request; c2 speaks another  *)
(* protocol; c3 only connects.                                                *)
MCNaming == ("one" :> {pic}) @@ ("two" :> Pictures) @@ ("a/b" :> {})
Get(name, form) == [path |-> name, form |-> form]
MCMayAsk ==
  c1 :> {Get("a/b", "http11"), Get("two", "http11"), Get("one", "odd")}
    @@ c2 :> {Get("one", "other")} @@ c3 :> {}
==============================================================================
