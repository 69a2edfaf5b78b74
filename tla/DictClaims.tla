------------------------------- MODULE DictClaims -------------------------------
(***************************************************************************)
(* What the repository says of the data directory, stated over DictStore.  *)
(* Each of these is refuted by the code: one run per claim shows how.      *)
(***************************************************************************)
EXTENDS MCDictStore

(***************************************************************************)
(* offdictd/src/main.rs:29, "Run offdictd build to initialize the index":  *)
(* offdictd serves when it is started beside an index that was built.  The *)
(* code loads the index in the process that built it only (newix never     *)
(* calls load_index), and prints the advice again.                         *)
(***************************************************************************)
BuildInitializes ==
  [][\A p \in Procs :
       NoCommand(p) /\ proc[p].bin = "offdictd" /\ index.state = "whole"
         => proc'[p].pc = "serving"]_vars

(***************************************************************************)
(* lib.rs:607, "Build index, required after adding or removing words": the *)
(* panel's binary gets to the build it was started for.  The code loads    *)
(* the old index before any command (src/src/main.rs:76), and what a build *)
(* that was killed has left of it does not decode.                         *)
(***************************************************************************)
BuildNeverRefused ==
  [][\A p \in Procs :
       LoadIndex(p) /\ proc[p].op = "build" => proc'[p].pc = "command"]_vars
================================================================================
