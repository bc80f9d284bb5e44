-------------------------------- MODULE Load --------------------------------
(***************************************************************************)
(* schema.Load of internal/schema/parse.go with the document-level         *)
(* include:.  A file that includes others gets their steps before its own, *)
(* and their environment and shell where it has none; what else they       *)
(* declare is dropped.                                                     *)
(*                                                                         *)
(* A file is [include, steps, finally, outputs, env, shell]: the files it  *)
(* includes in order, what it declares, its environment by name, and its   *)
(* default shell, or "".  A directory maps paths to files.                 *)
(***************************************************************************)
EXTENDS Naturals, Sequences, SequencesExt

Overlay(f, g) == [k \in DOMAIN f \cup DOMAIN g |-> IF k \in DOMAIN f THEN f[k] ELSE g[k]]

(* Mutant: what is included overrides what the file sets itself.           *)
Merge_ChildWins(wf, child) ==
  [ok |-> child.ok, visited |-> child.visited,
   prelude |-> wf.prelude \o child.steps,
   env |-> Overlay(child.env, wf.env),
   shell |-> IF wf.shell = "" THEN child.shell ELSE wf.shell]

(* One include is merged into the workflow that has it.                    *)
Merge(wf, child) ==
  [ok |-> child.ok, visited |-> child.visited,
   prelude |-> wf.prelude \o child.steps,
   env |-> Overlay(wf.env, child.env),
   shell |-> IF wf.shell = "" THEN child.shell ELSE wf.shell]

(* All of them, one after the other, as long as they load.                 *)
MergeAll(load, parsed, include) ==
  LET merged[i \in 0..Len(include)] ==
        IF i = 0 THEN parsed
        ELSE LET wf == merged[i - 1] IN
             IF wf.ok THEN Merge(wf, load[[path |-> include[i], visited |-> wf.visited]])
             ELSE wf
  IN merged[Len(include)]

NotLoaded(visited) ==
  [ok |-> FALSE, visited |-> visited, steps |-> <<>>, env |-> <<>>, shell |-> ""]

Paths(disk) == DOMAIN disk \cup UNION {ToSet(disk[p].include) : p \in DOMAIN disk}

(* A file to load, and the files met before it.                            *)
Calls(disk) == [path : Paths(disk), visited : SUBSET DOMAIN disk]

(* One map of visited files goes through the whole tree, so that a file    *)
(* may be loaded once, on whatever branch; load is what the calls below    *)
(* this one return.                                                        *)
LoadWithVisited(disk, load, path, visited) ==
  IF path \in visited \/ path \notin DOMAIN disk THEN NotLoaded(visited)
  ELSE LET own == disk[path]
           parsed == [ok |-> TRUE, visited |-> visited \cup {path}, prelude |-> <<>>,
                      env |-> own.env, shell |-> own.shell]
           wf == MergeAll(load, parsed, own.include)
       IN [ok |-> wf.ok, visited |-> wf.visited, steps |-> wf.prelude \o own.steps,
           env |-> wf.env, shell |-> wf.shell]

LoadFile(disk, entry) ==
  LET load[x \in Calls(disk)] == LoadWithVisited(disk, load, x.path, x.visited)
  IN load[[path |-> entry, visited |-> {}]]

(* The workflows a directory has: what each file that can be loaded is.    *)
Loaded(disk) ==
  [p \in {p \in DOMAIN disk : LoadFile(disk, p).ok} |->
     LET wf == LoadFile(disk, p) IN
     [steps |-> wf.steps, finally |-> disk[p].finally, outputs |-> disk[p].outputs,
      env |-> wf.env, shell |-> wf.shell]]
=============================================================================
