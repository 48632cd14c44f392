----------------------------- MODULE ConfigFile -----------------------------
(***************************************************************************)
(* emit.write_config: inits that write the config by way of one temporary  *)
(* file in the same directory, which they then rename over it.             *)
(*                                                                         *)
(* A name leads to a file; a file that was opened stays the file it is     *)
(* when its name is given to another or taken away.  A text is a record of *)
(* the lines and joins in it, and whether it was cut off, which nobody who *)
(* reads the file can tell.  What a killed or failed write has left of a   *)
(* text ends at a table, or within a line, which is no TOML.               *)
(***************************************************************************)
EXTENDS Plans, FiniteSets

CONSTANT Inits   \* invocations of dbmask init at the same time

ASSUME InitsAssumption == IsFiniteSet(Inits)

Files == 1..(Cardinality(Inits) + 2)

NoText == [lines |-> <<>>, joins |-> {}, torn |-> FALSE]

VARIABLES
  config,      (* the file the config path leads to; 0: there is none          *)
  temporary,   (* the file the temporary path leads to                         *)
  file,        (* what is in each file                                         *)
  writer,      (* of each init: its step, its text, --force, the file it opened *)
  overlapped   (* history: two inits were between the look and the rename      *)

fileVars == <<config, temporary, file, writer, overlapped>>

AtRest == [step |-> "idle", text |-> NoText, force |-> FALSE, handle |-> 0]

FileInit ==
  /\ config = 0 /\ temporary = 0
  /\ file = [f \in Files |-> NoText]
  /\ writer = [i \in Inits |-> AtRest]
  /\ overlapped = FALSE

\* The config as load_plan reads it.
Read == IF config = 0 THEN NoText ELSE file[config]

-----------------------------------------------------------------------------

Writing == {"open", "begin", "rest", "rename"}

Goes(i, from, to) ==
  /\ writer[i].step = from
  /\ writer' = [writer EXCEPT ![i].step = to]

\* The end of an init, whatever its exit code.
Ends(i) == writer' = [writer EXCEPT ![i] = AtRest]

Free == {f \in Files : f \notin {config, temporary} /\ \A i \in Inits : writer[i].handle # f}

\* A file that neither a name nor an init leads to is gone.
FilesAre(contents) ==
  file' = [f \in Files |-> IF f \in {config', temporary'} \cup {writer'[i].handle : i \in Inits}
                          THEN contents[f] ELSE NoText]

Start(i, text, force) ==
  /\ writer[i].step = "idle"
  /\ writer' = [writer EXCEPT ![i] = [step |-> "look", text |-> text, force |-> force, handle |-> 0]]
  /\ UNCHANGED <<config, temporary, file, overlapped>>

\* Mutant: --force is not asked for.
Look_Anyway(i) ==
  /\ Goes(i, "look", "open")
  /\ overlapped' = (overlapped \/ \E j \in Inits \ {i} : writer[j].step \in Writing)
  /\ UNCHANGED <<config, temporary, file>>

\* path.exists().
Look(i) ==
  /\ writer[i].step = "look"
  /\ \/ config # 0 /\ ~writer[i].force /\ Ends(i) /\ UNCHANGED overlapped
     \/ /\ config = 0 \/ writer[i].force
        /\ Goes(i, "look", "open")
        /\ overlapped' = (overlapped \/ \E j \in Inits \ {i} : writer[j].step \in Writing)
  /\ UNCHANGED <<config, temporary, file>>

Opens(i, f) ==
  /\ writer[i].step = "open"
  /\ writer' = [writer EXCEPT ![i] = [@ EXCEPT !.step = "begin", !.handle = f]]
  /\ FilesAre([file EXCEPT ![f] = [NoText EXCEPT !.torn = TRUE]])

\* Mutant: the config itself is written.
Open_InPlace(i) ==
  /\ config' \in IF config = 0 THEN Free ELSE {config}
  /\ UNCHANGED <<temporary, overlapped>>
  /\ Opens(i, config')

\* write_text opens the temporary file, or creates it, and truncates it.
Open(i) ==
  /\ temporary' = IF temporary = 0 THEN CHOOSE f \in Free : TRUE ELSE temporary
  /\ UNCHANGED <<config, overlapped>>
  /\ Opens(i, temporary')

\* What there may be of a text when only part of it was written.
CutAtTable(text) ==
  {[NoText EXCEPT !.torn = TRUE, !.lines = [c \in {d \in DOMAIN text.lines : d[1] < t} |-> text.lines[c]]] :
     t \in {c[1] : c \in DOMAIN text.lines}}
CutInLine ==
  [NoText EXCEPT !.torn = TRUE, !.lines = [c \in {<<0, "">>} |-> [strategy |-> "", options |-> <<>>]]]

Begins(i) ==
  /\ Goes(i, "begin", "rest")
  /\ UNCHANGED <<config, temporary, overlapped>>
  /\ \E part \in {CutInLine} \cup CutAtTable(writer[i].text) :
       FilesAre([file EXCEPT ![writer[i].handle] = part])

\* The text is complete, and the file closed.  Over the longer text of another init it is
\* not all there is.
Completes(i) ==
  /\ writer[i].step = "rest"
  /\ writer' = [writer EXCEPT ![i] = [@ EXCEPT !.step = "rename", !.handle = 0]]
  /\ UNCHANGED <<config, temporary, overlapped>>
  /\ LET written == file[writer[i].handle]
     IN \E text \in {writer[i].text} \cup {t \in {CutInLine} : ~written.torn /\ written # writer[i].text} :
          FilesAre([file EXCEPT ![writer[i].handle] = text])

\* replace(), which fails when another init has renamed the file.
Rename(i) ==
  /\ writer[i].step = "rename"
  /\ config' = IF temporary = 0 THEN config ELSE temporary
  /\ temporary' = 0
  /\ Ends(i)
  /\ UNCHANGED overlapped
  /\ FilesAre(file)

\* An OSError of write_text or replace: the temporary path is unlinked.
GivesUp(i) ==
  /\ writer[i].step \in Writing
  /\ temporary' = 0
  /\ Ends(i)
  /\ UNCHANGED <<config, overlapped>>
  /\ FilesAre(file)

\* The init is killed.
Dies(i) ==
  /\ writer[i].step # "idle"
  /\ Ends(i)
  /\ UNCHANGED <<config, temporary, overlapped>>
  /\ FilesAre(file)

WriterStep(i) ==
  Look(i) \/ Open(i) \/ Begins(i) \/ Completes(i) \/ Rename(i) \/ GivesUp(i) \/ Dies(i)

-----------------------------------------------------------------------------

FileTypeOK ==
  /\ config \in Files \cup {0} /\ temporary \in Files \cup {0}
  /\ DOMAIN file = Files /\ DOMAIN writer = Inits
  /\ \A i \in Inits : /\ writer[i].step \in Writing \cup {"idle", "look"}
                      /\ writer[i].handle \in Files \cup {0}
                      /\ writer[i].step \in {"begin", "rest"} <=> writer[i].handle # 0
  /\ overlapped \in BOOLEAN

(* The config is whole at every moment, wherever an init is killed or its write fails, and *)
(* whatever an earlier one has left in the temporary file, unless two inits overlapped     *)
(* (emit.py:167, "The write is atomic").                                                   *)
ConfigWhole == Read.torn => overlapped

(* Unless two inits overlapped, a config is only ever replaced by an init with --force, and *)
(* only by its whole text (emit.py:165, "refusing to overwrite a reviewed file").           *)
ReplacedByForce ==
  [][config # 0 /\ config' # config /\ ~overlapped =>
       \E i \in Inits : writer[i].step = "rename" /\ writer[i].force /\ Read' = writer[i].text]_fileVars
=============================================================================
