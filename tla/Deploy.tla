------------------------------- MODULE Deploy -------------------------------
(***************************************************************************)
(* A deploy on the host (deploy/deploy.sh), with verification and rollback. *)
(*                                                                         *)
(* The compose file and deploy/ are one thing here, files.  A run may be    *)
(* killed between any two commands; one run goes at a time (the workflow's  *)
(* concurrency group).  What compose starts is not modelled: whether a tag  *)
(* comes up healthy with the installed files is a free choice.              *)
(***************************************************************************)

CONSTANTS
  Tag, Files,
  Initial,     \* the files on the host before the first deploy
  None         \* no tag, or no files saved

ASSUME DeployAssumption == Initial \in Files /\ None \notin Tag \cup Files

VARIABLES
  host,       \* files, IMAGE_TAG of .env, .previous, .deployed-tag, .incoming
  run,        \* the running deploy.sh: where it is, new_tag, prev_tag, installed
  verified,   \* history: the tags verified, each with the files it ran with
  astray      \* history: the last run stopped halfway or failed over its own tag

deployVars == <<host, run, verified, astray>>

DeployTypeOK ==
  /\ host \in [files : Files, tag : Tag \cup {None}, previous : Files \cup {None},
               deployed : Tag \cup {None}, incoming : Files \cup {None}]
  /\ run \in [pc : {"idle", "save", "install", "release", "pull", "start", "rollback"},
              new : Tag \cup {None}, prev : Tag \cup {None}, installed : BOOLEAN]
  /\ verified \subseteq Tag \X Files
  /\ astray \in BOOLEAN

NoRun == [pc |-> "idle", new |-> None, prev |-> None, installed |-> FALSE]

------------------------------------------------------------------------------
\* The workflow copies new files to the host.
copyIncoming ==
  /\ run.pc = "idle"
  /\ \E f \in Files : host' = [host EXCEPT !.incoming = f]
  /\ UNCHANGED <<run, verified, astray>>

\* deploy.sh starts; without a .env only the workflow, which writes it, gets past
\* validate_env.
main(new) ==
  /\ run.pc = "idle"
  /\ host.tag # None \/ host.incoming # None
  /\ run' = [pc |-> "save", new |-> new, prev |-> host.deployed, installed |-> FALSE]
  /\ UNCHANGED <<host, verified, astray>>

\* install_incoming: whether the files on the host replace the saved copy.
Saves == host.deployed # None \/ host.previous = None

saveFiles ==
  /\ run.pc = "save"
  /\ IF host.incoming = None
     THEN run' = [run EXCEPT !.pc = "release"] /\ UNCHANGED host
     ELSE /\ run' = [run EXCEPT !.pc = "install"]
          /\ host' = [host EXCEPT !.previous = IF Saves THEN host.files ELSE @]
  /\ UNCHANGED <<verified, astray>>

installFiles ==
  /\ run.pc = "install"
  /\ host' = [host EXCEPT !.files = host.incoming, !.incoming = None]
  /\ run' = [run EXCEPT !.pc = "release", !.installed = TRUE]
  /\ UNCHANGED <<verified, astray>>

\* write_env and set_release.
set_release ==
  /\ run.pc = "release"
  /\ host' = [host EXCEPT !.tag = run.new]
  /\ run' = [run EXCEPT !.pc = "pull"]
  /\ UNCHANGED <<verified, astray>>

\* Mutant.
RestoredAnyway == IF host.previous # None THEN host.previous ELSE host.files
\* restore_previous: the files it leaves.
Restored == IF run.installed /\ host.previous # None THEN host.previous ELSE host.files

pulled ==
  /\ run.pc = "pull" /\ run' = [run EXCEPT !.pc = "start"]
  /\ UNCHANGED <<host, verified, astray>>

pullFails ==
  /\ run.pc = "pull" /\ run' = NoRun
  /\ host' = [host EXCEPT !.files = Restored, !.tag = IF run.prev # None THEN run.prev ELSE @]
  /\ UNCHANGED <<verified, astray>>

\* start_tag: the tag came up and passed verify.
started ==
  /\ run.pc = "start" /\ run' = NoRun
  /\ host' = [host EXCEPT !.deployed = run.new]
  /\ verified' = verified \cup {<<host.tag, host.files>>}
  /\ astray' = FALSE

startFails ==
  /\ run.pc = "start"
  /\ IF run.prev \in {None, run.new}
     THEN /\ run' = NoRun /\ UNCHANGED host
          /\ astray' = (astray \/ run.installed)
     ELSE /\ run' = [run EXCEPT !.pc = "rollback"]
          /\ host' = [host EXCEPT !.files = Restored, !.tag = run.prev]
          /\ UNCHANGED astray
  /\ UNCHANGED verified

\* The rollback came up, or not: either way deploy.sh dies.
rolledBack(healthy) ==
  /\ run.pc = "rollback" /\ run' = NoRun
  /\ verified' = IF healthy THEN verified \cup {<<host.tag, host.files>>} ELSE verified
  /\ astray' = (astray /\ ~healthy)
  /\ UNCHANGED host

\* The connection drops or the host restarts.  .previous is removed before the copy
\* takes its place, and the new files are copied before .incoming is removed.
kill ==
  /\ run.pc # "idle" /\ run' = NoRun /\ astray' = TRUE
  /\ \/ UNCHANGED host
     \/ run.pc = "save" /\ host.incoming # None /\ Saves /\ host' = [host EXCEPT !.previous = None]
     \/ run.pc = "install" /\ host' = [host EXCEPT !.files = host.incoming]
  /\ UNCHANGED verified

------------------------------------------------------------------------------
DeployInit ==
  /\ host = [files |-> Initial, tag |-> None, previous |-> None, deployed |-> None, incoming |-> None]
  /\ run = NoRun /\ verified = {} /\ astray = FALSE

DeployNext ==
  \/ copyIncoming \/ saveFiles \/ installFiles \/ set_release
  \/ pulled \/ pullFails \/ started \/ startFails \/ kill
  \/ \E new \in Tag : main(new)
  \/ \E healthy \in BOOLEAN : rolledBack(healthy)

DeploySpec == DeployInit /\ [][DeployNext]_deployVars

------------------------------------------------------------------------------
(* Properties.                                                              *)

\* Whatever fails, a rollback starts a tag with files that tag was verified with, and
\* a host at rest is left on such a pair, unless a run was killed or failed over the
\* tag it replaced (deploy.sh, restore_previous and install_incoming).
RollbackIsVerified ==
  (host.deployed # None /\ ~astray /\ run.pc \in {"idle", "rollback"})
    => <<host.tag, host.files>> \in verified
=============================================================================
