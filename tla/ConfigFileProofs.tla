-------------------------- MODULE ConfigFileProofs --------------------------
(***************************************************************************)
(* The config is whole for any number of inits: one lemma per step of      *)
(* write_config, for PreflightProofs.                                      *)
(***************************************************************************)
EXTENDS ConfigFile, FiniteSetTheorems, TLAPS

IsText(text) == DOMAIN text = {"lines", "joins", "torn"}

\* The parts of a writer, and that only one who has begun to write has a file open.
IsWriter(w) ==
  /\ DOMAIN w = {"step", "text", "force", "handle"}
  /\ w.step \in Writing \cup {"idle", "look"}
  /\ IsText(w.text) /\ ~w.text.torn
  /\ w.step \notin {"begin", "rest"} => w.handle = 0

Shapes ==
  /\ DOMAIN file = Files /\ \A f \in Files : IsText(file[f])
  /\ DOMAIN writer = Inits /\ \A i \in Inits : IsWriter(writer[i])
  /\ overlapped \in BOOLEAN

\* One init at a time, and two names of two files.
Alone ==
  /\ config \in Files \cup {0} /\ temporary \in Files \cup {0}
  /\ config # 0 => config # temporary /\ ~file[config].torn
  /\ \A i, j \in Inits : writer[i].step \in Writing /\ writer[j].step \in Writing => i = j

\* The init that writes was free to, and has the temporary file open, which is cut off until
\* it is complete.
WritesTemporary ==
  \A i \in Inits :
    /\ writer[i].step \in Writing => config = 0 \/ writer[i].force
    /\ writer[i].step \in {"begin", "rest"} => writer[i].handle = temporary /\ temporary # 0
    /\ writer[i].step = "rest" => file[temporary].torn
    /\ writer[i].step = "rename" /\ temporary # 0 => file[temporary] = writer[i].text

FileInv == Shapes /\ (~overlapped => Alone /\ WritesTemporary)

-----------------------------------------------------------------------------

LEMMA TwoFiles == 0 \notin Files /\ 1 \in Files /\ 2 \in Files
<1>1. Cardinality(Inits) \in Nat
  BY InitsAssumption, FS_CardinalityType
<1> QED
  BY <1>1 DEF Files

\* What FilesAre leaves in the files that a name or an init leads to.
LEMMA FilesAreFacts ==
  ASSUME NEW contents, DOMAIN contents = Files, \A f \in Files : IsText(contents[f]),
         FilesAre(contents)
  PROVE  /\ DOMAIN file' = Files
         /\ \A f \in Files : IsText(file'[f])
         /\ config' \in Files => file'[config'] = contents[config']
         /\ temporary' \in Files => file'[temporary'] = contents[temporary']
<1> DEFINE Kept == {config', temporary'} \cup {writer'[i].handle : i \in Inits}
<1>1. file' = [f \in Files |-> IF f \in Kept THEN contents[f] ELSE NoText]
  BY DEF FilesAre
<1>2. IsText(NoText)
  BY DEF IsText, NoText
<1>3. config' \in Kept /\ temporary' \in Kept
  OBVIOUS
<1> HIDE DEF Kept
<1> QED
  BY <1>1, <1>2, <1>3

LEMMA InitFileInv == FileInit => FileInv
<1> SUFFICES ASSUME FileInit PROVE FileInv
  OBVIOUS
<1>1. IsText(NoText) /\ ~NoText.torn
  BY DEF IsText, NoText
<1>2. IsWriter(AtRest)
  BY <1>1 DEF IsWriter, AtRest
<1>3. AtRest.step = "idle"
  BY DEF AtRest
<1>4. Shapes
  BY <1>1, <1>2 DEF FileInit, Shapes
<1>5. Alone
  BY <1>3 DEF FileInit, Alone, Writing
<1>6. WritesTemporary
  BY <1>3 DEF FileInit, WritesTemporary
<1> QED
  BY <1>4, <1>5, <1>6 DEF FileInv

\* One init's record is replaced.
LEMMA WriterFacts ==
  ASSUME Shapes, NEW i \in Inits, NEW w, IsWriter(w), writer' = [writer EXCEPT ![i] = w]
  PROVE  /\ DOMAIN writer' = Inits
         /\ \A j \in Inits : IsWriter(writer'[j])
         /\ writer'[i] = w
         /\ \A j \in Inits \ {i} : writer'[j] = writer[j]
BY DEF Shapes

\* An init whose step changes, the rest of its record does not.
LEMMA GoesFacts ==
  ASSUME Shapes, NEW i \in Inits, NEW from, NEW to, Goes(i, from, to),
         to \in Writing, to \in {"begin", "rest"} <=> from \in {"begin", "rest"}
  PROVE  /\ writer[i].step = from
         /\ DOMAIN writer' = Inits
         /\ \A j \in Inits : IsWriter(writer'[j])
         /\ writer'[i].step = to
         /\ writer'[i].handle = writer[i].handle
         /\ writer'[i].text = writer[i].text /\ writer'[i].force = writer[i].force
         /\ \A j \in Inits \ {i} : writer'[j] = writer[j]
<1> DEFINE w == [writer[i] EXCEPT !.step = to]
<1>1. writer[i].step = from /\ writer' = [writer EXCEPT ![i] = w]
  BY DEF Goes, Shapes
<1>2. IsWriter(writer[i])
  BY DEF Shapes
<1>3. /\ DOMAIN w = {"step", "text", "force", "handle"}
      /\ w.step = to /\ w.text = writer[i].text /\ w.handle = writer[i].handle
      /\ w.force = writer[i].force
  BY <1>2 DEF IsWriter
<1>4. IsWriter(w)
  BY <1>1, <1>2, <1>3 DEF IsWriter
<1> HIDE DEF w
<1> QED
  BY <1>1, <1>3, <1>4, WriterFacts

\* An init that has ended.
LEMMA EndsFacts ==
  ASSUME Shapes, NEW i \in Inits, Ends(i)
  PROVE  /\ DOMAIN writer' = Inits
         /\ \A j \in Inits : IsWriter(writer'[j])
         /\ writer'[i].step = "idle"
         /\ \A j \in Inits \ {i} : writer'[j] = writer[j]
<1>1. IsWriter(AtRest) /\ AtRest.step = "idle"
  BY DEF IsWriter, AtRest, IsText, NoText
<1> QED
  BY <1>1, WriterFacts DEF Ends

LEMMA StartKeepsFileInv ==
  ASSUME FileInv, NEW i \in Inits, NEW text, NEW force, Start(i, text, force),
         IsText(text), ~text.torn
  PROVE  FileInv'
<1> DEFINE w == [step |-> "look", text |-> text, force |-> force, handle |-> 0]
<1>1. Shapes
  BY DEF FileInv
<1>2. writer' = [writer EXCEPT ![i] = w] /\ UNCHANGED <<config, temporary, file, overlapped>>
  BY DEF Start
<1>3. IsWriter(w) /\ w.step = "look"
  BY DEF IsWriter
<1> HIDE DEF w
<1>4. /\ DOMAIN writer' = Inits /\ \A j \in Inits : IsWriter(writer'[j])
      /\ writer'[i] = w /\ \A j \in Inits \ {i} : writer'[j] = writer[j]
  BY <1>1, <1>2, <1>3, WriterFacts
<1>5. Shapes'
  BY <1>1, <1>2, <1>4 DEF Shapes
<1>6. ASSUME Alone PROVE Alone'
  BY <1>6, <1>2, <1>3, <1>4 DEF Alone, Writing
<1>7. ASSUME WritesTemporary PROVE WritesTemporary'
  BY <1>7, <1>2, <1>3, <1>4 DEF WritesTemporary, Writing
<1> QED
  BY <1>2, <1>5, <1>6, <1>7 DEF FileInv

\* An init that ends while the files and names stay as they are.
LEMMA EndKeepsFileInv ==
  ASSUME FileInv, NEW i \in Inits, Ends(i), config' = config, overlapped' = overlapped,
         (temporary' = 0 /\ writer[i].step \in Writing) \/ temporary' = temporary,
         FilesAre(file) \/ file' = file
  PROVE  FileInv'
<1>1. Shapes
  BY DEF FileInv
<1>2. /\ DOMAIN writer' = Inits /\ \A j \in Inits : IsWriter(writer'[j])
      /\ writer'[i].step = "idle" /\ \A j \in Inits \ {i} : writer'[j] = writer[j]
  BY <1>1, EndsFacts
<1>3. /\ DOMAIN file' = Files /\ \A f \in Files : IsText(file'[f])
      /\ config' \in Files => file'[config'] = file[config']
      /\ temporary' \in Files => file'[temporary'] = file[temporary']
  BY <1>1, FilesAreFacts DEF Shapes
<1>4. Shapes'
  BY <1>1, <1>2, <1>3 DEF Shapes
<1>5. ASSUME Alone PROVE Alone'
  BY <1>5, <1>2, <1>3 DEF Alone, Writing
<1>6. ASSUME Alone, WritesTemporary, NEW j \in Inits
      PROVE  /\ writer'[j].step \in Writing => config' = 0 \/ writer'[j].force
             /\ writer'[j].step \in {"begin", "rest"} => writer'[j].handle = temporary' /\ temporary' # 0
             /\ writer'[j].step = "rest" => file'[temporary'].torn
             /\ writer'[j].step = "rename" /\ temporary' # 0 => file'[temporary'] = writer'[j].text
  <2>1. CASE j = i
    BY <2>1, <1>2 DEF Writing
  <2>2. CASE j # i /\ writer[i].step \in Writing
    BY <2>2, <1>2, <1>6 DEF Alone, Writing
  <2>3. CASE j # i /\ temporary' = temporary
    BY <2>3, <1>2, <1>3, <1>6 DEF Alone, WritesTemporary
  <2> QED
    BY <2>1, <2>2, <2>3
<1> QED
  BY <1>4, <1>5, <1>6 DEF FileInv, WritesTemporary

LEMMA LookKeepsFileInv ==
  ASSUME FileInv, NEW i \in Inits, Look(i)
  PROVE  FileInv'
<1>1. CASE Ends(i) /\ UNCHANGED <<config, temporary, file, overlapped>>
  <2>1. Ends(i) /\ config' = config /\ overlapped' = overlapped /\ temporary' = temporary /\ file' = file
    BY <1>1
  <2> QED
    BY <2>1, EndKeepsFileInv
<1>2. CASE /\ config = 0 \/ writer[i].force
           /\ Goes(i, "look", "open")
           /\ overlapped' = (overlapped \/ \E j \in Inits \ {i} : writer[j].step \in Writing)
           /\ UNCHANGED <<config, temporary, file>>
  <2>1. Shapes
    BY DEF FileInv
  <2>2. /\ DOMAIN writer' = Inits /\ \A j \in Inits : IsWriter(writer'[j])
        /\ writer'[i].step = "open" /\ writer'[i].force = writer[i].force
        /\ \A j \in Inits \ {i} : writer'[j] = writer[j]
    BY <1>2, <2>1, GoesFacts DEF Writing
  <2>3. overlapped' \in BOOLEAN
    BY <1>2
  <2>4. Shapes'
    BY <1>2, <2>1, <2>2, <2>3 DEF Shapes
  <2>5. ASSUME ~overlapped' PROVE Alone' /\ WritesTemporary'
    <3>1. ~overlapped /\ \A j \in Inits \ {i} : writer[j].step \notin Writing
      BY <1>2, <2>1, <2>5 DEF Shapes
    <3>2. Alone /\ WritesTemporary
      BY <3>1 DEF FileInv
    <3>3. Alone'
      BY <1>2, <2>2, <3>1, <3>2 DEF Alone
    <3>4. WritesTemporary'
      BY <1>2, <2>2, <3>2 DEF WritesTemporary
    <3> QED
      BY <3>3, <3>4
  <2> QED
    BY <2>4, <2>5 DEF FileInv
<1> QED
  BY <1>1, <1>2 DEF Look

\* The other inits have no file open when one that writes is alone.
LEMMA OthersHaveNone ==
  ASSUME Shapes, Alone, NEW i \in Inits, writer[i].step \in Writing
  PROVE  \A j \in Inits \ {i} : writer[j].step \notin Writing /\ writer[j].handle = 0
BY DEF Shapes, Alone, IsWriter, Writing

\* There is a file to create: the config's and those the other inits have open are fewer.
LEMMA SomeFree ==
  ASSUME Shapes, NEW i \in Inits, writer[i].step = "open", temporary = 0
  PROVE  (CHOOSE f \in Free : TRUE) \in Files \ {0, config}
<1>1. Cardinality(Inits) \in Nat /\ IsFiniteSet(Inits)
  BY InitsAssumption, FS_CardinalityType
<1>2. IsFiniteSet(Files \ {config}) /\ Cardinality(Files \ {config}) > Cardinality(Inits)
  <2> DEFINE last == Cardinality(Inits) + 2
  <2>1. last \in Int /\ 1 \in Int /\ ~(1 > last)
    BY <1>1
  <2>2. IsFiniteSet(1..last) /\ Cardinality(1..last) = last - 1 + 1
    <3> HIDE DEF last
    <3> QED
      BY <2>1, FS_Interval
  <2>3. IsFiniteSet(Files) /\ Cardinality(Files) = Cardinality(Inits) + 2
    BY <1>1, <2>2 DEF Files
  <2>4. /\ IsFiniteSet(Files \ {config})
        /\ Cardinality(Files \ {config}) \in {Cardinality(Files) - 1, Cardinality(Files)}
    BY <2>3, FS_RemoveElement
  <2> QED
    BY <1>1, <2>3, <2>4
<1>3. \E f \in Free : TRUE
  <2> SUFFICES ASSUME \A f \in Files \ {config} : \E j \in Inits : writer[j].handle = f
               PROVE  FALSE
    BY TwoFiles DEF Free
  <2> DEFINE holder == [f \in Files \ {config} |-> CHOOSE j \in Inits : writer[j].handle = f]
  <2>1. \A f \in Files \ {config} : holder[f] \in Inits /\ writer[holder[f]].handle = f
    OBVIOUS
  <2>2. holder \in [Files \ {config} -> Inits]
    BY <2>1
  <2>3. PICK f, g \in Files \ {config} : f # g /\ holder[f] = holder[g]
    <3> HIDE DEF holder
    <3> QED
      BY <1>1, <1>2, <2>2, FS_PigeonHole
  <2> QED
    BY <2>1, <2>3
<1> QED
  BY <1>3, TwoFiles DEF Free

LEMMA OpenKeepsFileInv ==
  ASSUME FileInv, NEW i \in Inits, Open(i)
  PROVE  FileInv'
<1> DEFINE w == [writer[i] EXCEPT !.step = "begin", !.handle = temporary']
           contents == [file EXCEPT ![temporary'] = [NoText EXCEPT !.torn = TRUE]]
<1>1. Shapes
  BY DEF FileInv
<1>2. /\ writer[i].step = "open" /\ UNCHANGED <<config, overlapped>>
      /\ FilesAre(contents)
      /\ temporary' = IF temporary = 0 THEN CHOOSE f \in Free : TRUE ELSE temporary
  BY DEF Open, Opens
<1>3. writer' = [writer EXCEPT ![i] = w]
  BY <1>1 DEF Open, Opens, Shapes
<1>4. /\ DOMAIN w = {"step", "text", "force", "handle"}
      /\ w.step = "begin" /\ w.handle = temporary' /\ w.text = writer[i].text
      /\ w.force = writer[i].force
  BY <1>1 DEF Shapes, IsWriter
<1>5. IsWriter(w)
  BY <1>1, <1>4 DEF Shapes, IsWriter, Writing
<1>6. /\ DOMAIN contents = Files /\ \A f \in Files : IsText(contents[f])
      /\ \A f \in Files : f # temporary' => contents[f] = file[f]
  BY <1>1 DEF Shapes, IsText, NoText
<1> HIDE DEF w, contents
<1>7. /\ DOMAIN writer' = Inits /\ \A j \in Inits : IsWriter(writer'[j])
      /\ writer'[i] = w /\ \A j \in Inits \ {i} : writer'[j] = writer[j]
  BY <1>1, <1>3, <1>5, WriterFacts
<1>8. /\ DOMAIN file' = Files /\ \A f \in Files : IsText(file'[f])
      /\ config' \in Files => file'[config'] = contents[config']
  BY <1>2, <1>6, FilesAreFacts
<1>9. Shapes'
  BY <1>1, <1>2, <1>7, <1>8 DEF Shapes
<1>10. ASSUME ~overlapped PROVE Alone' /\ WritesTemporary'
  <2>1. Alone
    BY <1>10 DEF FileInv
  <2>2. temporary' \in Files /\ temporary' # 0 /\ (config # 0 => temporary' # config)
    BY <1>1, <1>2, <2>1, SomeFree, TwoFiles DEF Alone
  <2>3. \A j \in Inits \ {i} : writer'[j].step \notin Writing
    BY <1>1, <1>2, <1>7, <2>1, OthersHaveNone DEF Writing
  <2>4. config' # 0 => config' # temporary' /\ ~file'[config'].torn
    BY <1>2, <1>6, <1>8, <2>1, <2>2 DEF Alone
  <2>5. Alone'
    BY <1>2, <2>1, <2>2, <2>3, <2>4 DEF Alone
  <2>6. WritesTemporary'
    BY <1>2, <1>4, <1>7, <1>10, <2>2, <2>3 DEF WritesTemporary, Writing, FileInv
  <2> QED
    BY <2>5, <2>6
<1> QED
  BY <1>2, <1>9, <1>10 DEF FileInv

\* The parts of a text are cut off, and texts.
LEMMA PartFacts ==
  ASSUME NEW text, NEW part \in {CutInLine} \cup CutAtTable(text)
  PROVE  IsText(part) /\ part.torn
BY DEF CutInLine, CutAtTable, IsText, NoText

LEMMA BeginsKeepsFileInv ==
  ASSUME FileInv, NEW i \in Inits, Begins(i)
  PROVE  FileInv'
<1>1. Shapes /\ UNCHANGED <<config, temporary, overlapped>> /\ Goes(i, "begin", "rest")
  BY DEF FileInv, Begins
<1>2. PICK part \in {CutInLine} \cup CutAtTable(writer[i].text) :
        FilesAre([file EXCEPT ![writer[i].handle] = part])
  BY DEF Begins
<1> DEFINE contents == [file EXCEPT ![writer[i].handle] = part]
<1>3. IsText(part) /\ part.torn
  BY PartFacts
<1>4. /\ writer[i].step = "begin"
      /\ DOMAIN writer' = Inits /\ \A j \in Inits : IsWriter(writer'[j])
      /\ writer'[i].step = "rest" /\ writer'[i].handle = writer[i].handle
      /\ writer'[i].force = writer[i].force
      /\ \A j \in Inits \ {i} : writer'[j] = writer[j]
  BY <1>1, GoesFacts DEF Writing
<1>5. /\ DOMAIN contents = Files /\ \A f \in Files : IsText(contents[f])
      /\ \A f \in Files : f # writer[i].handle => contents[f] = file[f]
      /\ writer[i].handle \in Files => contents[writer[i].handle] = part
  BY <1>1, <1>3 DEF Shapes
<1> HIDE DEF contents
<1>6. /\ DOMAIN file' = Files /\ \A f \in Files : IsText(file'[f])
      /\ config' \in Files => file'[config'] = contents[config']
      /\ temporary' \in Files => file'[temporary'] = contents[temporary']
  BY <1>2, <1>5, FilesAreFacts DEF contents
<1>7. Shapes'
  BY <1>1, <1>4, <1>6 DEF Shapes
<1>8. ASSUME ~overlapped PROVE Alone' /\ WritesTemporary'
  <2>1. Alone /\ WritesTemporary
    BY <1>8 DEF FileInv
  <2>2. writer[i].handle = temporary /\ temporary # 0 /\ temporary \in Files
    BY <1>4, <2>1 DEF WritesTemporary, Alone
  <2>3. \A j \in Inits \ {i} : writer'[j].step \notin Writing
    BY <1>1, <1>4, <2>1, OthersHaveNone DEF Writing
  <2>4. Alone'
    BY <1>1, <1>4, <1>5, <1>6, <2>1, <2>2, <2>3 DEF Alone
  <2>5. WritesTemporary'
    BY <1>1, <1>3, <1>4, <1>5, <1>6, <2>1, <2>2, <2>3 DEF WritesTemporary, Writing
  <2> QED
    BY <2>4, <2>5
<1> QED
  BY <1>1, <1>7, <1>8 DEF FileInv

LEMMA CompletesKeepsFileInv ==
  ASSUME FileInv, NEW i \in Inits, Completes(i)
  PROVE  FileInv'
<1> DEFINE w == [writer[i] EXCEPT !.step = "rename", !.handle = 0]
           handle == writer[i].handle
<1>1. Shapes /\ UNCHANGED <<config, temporary, overlapped>> /\ writer[i].step = "rest"
  BY DEF FileInv, Completes
<1>2. PICK text \in {writer[i].text}
                    \cup {t \in {CutInLine} : ~file[handle].torn /\ file[handle] # writer[i].text} :
        FilesAre([file EXCEPT ![handle] = text])
  BY DEF Completes
<1> DEFINE contents == [file EXCEPT ![handle] = text]
<1>3. writer' = [writer EXCEPT ![i] = w]
  BY <1>1 DEF Completes, Shapes
<1>4. /\ w.step = "rename" /\ w.handle = 0 /\ IsWriter(w)
      /\ w.text = writer[i].text /\ w.force = writer[i].force
  BY <1>1 DEF Shapes, IsWriter, Writing
<1>5. IsText(writer[i].text) /\ ~writer[i].text.torn /\ IsText(CutInLine)
  BY <1>1, PartFacts DEF Shapes, IsWriter
<1>6. IsText(text) /\ (file[handle].torn => text = writer[i].text)
  BY <1>5
<1>7. /\ DOMAIN contents = Files /\ \A f \in Files : IsText(contents[f])
      /\ \A f \in Files : f # handle => contents[f] = file[f]
      /\ handle \in Files => contents[handle] = text
  BY <1>1, <1>6 DEF Shapes
<1> HIDE DEF w, contents
<1>8. /\ DOMAIN writer' = Inits /\ \A j \in Inits : IsWriter(writer'[j])
      /\ writer'[i] = w /\ \A j \in Inits \ {i} : writer'[j] = writer[j]
  BY <1>1, <1>3, <1>4, WriterFacts
<1>9. /\ DOMAIN file' = Files /\ \A f \in Files : IsText(file'[f])
      /\ config' \in Files => file'[config'] = contents[config']
      /\ temporary' \in Files => file'[temporary'] = contents[temporary']
  BY <1>2, <1>7, FilesAreFacts DEF contents
<1>10. Shapes'
  BY <1>1, <1>8, <1>9 DEF Shapes
<1>11. ASSUME ~overlapped PROVE Alone' /\ WritesTemporary'
  <2>1. Alone /\ WritesTemporary
    BY <1>11 DEF FileInv
  <2>2. handle = temporary /\ temporary # 0 /\ temporary \in Files /\ file[temporary].torn
    BY <1>1, <2>1 DEF WritesTemporary, Alone
  <2>3. \A j \in Inits \ {i} : writer'[j].step \notin Writing
    BY <1>1, <1>8, <2>1, OthersHaveNone DEF Writing
  <2>4. Alone'
    BY <1>1, <1>7, <1>8, <1>9, <2>1, <2>2, <2>3 DEF Alone
  <2>5. WritesTemporary'
    BY <1>1, <1>4, <1>6, <1>7, <1>8, <1>9, <2>1, <2>2, <2>3 DEF WritesTemporary, Writing
  <2> QED
    BY <2>4, <2>5
<1> QED
  BY <1>1, <1>10, <1>11 DEF FileInv

LEMMA RenameKeepsFileInv ==
  ASSUME FileInv, NEW i \in Inits, Rename(i)
  PROVE  FileInv'
<1>1. /\ Shapes /\ writer[i].step = "rename" /\ Ends(i) /\ UNCHANGED overlapped
      /\ FilesAre(file) /\ temporary' = 0
      /\ config' = IF temporary = 0 THEN config ELSE temporary
  BY DEF FileInv, Rename
<1>2. /\ DOMAIN writer' = Inits /\ \A j \in Inits : IsWriter(writer'[j])
      /\ writer'[i].step = "idle" /\ \A j \in Inits \ {i} : writer'[j] = writer[j]
  BY <1>1, EndsFacts
<1>3. /\ DOMAIN file' = Files /\ \A f \in Files : IsText(file'[f])
      /\ config' \in Files => file'[config'] = file[config']
  BY <1>1, FilesAreFacts DEF Shapes
<1>4. Shapes'
  BY <1>1, <1>2, <1>3 DEF Shapes
<1>5. ASSUME ~overlapped PROVE Alone' /\ WritesTemporary'
  <2>1. Alone /\ WritesTemporary
    BY <1>5 DEF FileInv
  <2>2. \A j \in Inits : writer'[j].step \notin Writing
    BY <1>1, <1>2, <2>1, OthersHaveNone DEF Writing
  <2>3. config' # 0 => config' # temporary' /\ ~file'[config'].torn
    BY <1>1, <1>3, <2>1 DEF Alone, WritesTemporary, Shapes, IsWriter
  <2>4. Alone'
    BY <1>1, <2>1, <2>2, <2>3 DEF Alone
  <2>5. WritesTemporary'
    BY <2>2 DEF WritesTemporary, Writing
  <2> QED
    BY <2>4, <2>5
<1> QED
  BY <1>1, <1>4, <1>5 DEF FileInv

\* Whatever an init does, or is done to it.
LEMMA WriterStepKeepsFileInv ==
  ASSUME FileInv, NEW i \in Inits, WriterStep(i)
  PROVE  FileInv'
<1>1. CASE GivesUp(i)
  <2>1. /\ Ends(i) /\ config' = config /\ overlapped' = overlapped /\ FilesAre(file)
        /\ temporary' = 0 /\ writer[i].step \in Writing
    BY <1>1 DEF GivesUp
  <2> QED
    BY <2>1, EndKeepsFileInv
<1>2. CASE Dies(i)
  <2>1. /\ Ends(i) /\ config' = config /\ overlapped' = overlapped /\ FilesAre(file)
        /\ temporary' = temporary
    BY <1>2 DEF Dies
  <2> QED
    BY <2>1, EndKeepsFileInv
<1> QED
  BY <1>1, <1>2, LookKeepsFileInv, OpenKeepsFileInv, BeginsKeepsFileInv, CompletesKeepsFileInv,
     RenameKeepsFileInv DEF WriterStep

-----------------------------------------------------------------------------
(* Of whatever overlaps: who has which file open, and where texts come from. *)

Handles ==
  /\ config \in Files \cup {0} /\ temporary \in Files \cup {0}
  /\ \A i \in Inits : /\ writer[i].handle \in Files \cup {0}
                      /\ writer[i].step \in {"begin", "rest"} => writer[i].handle # 0

LEMMA HandlesAreTyped == Shapes /\ Handles => FileTypeOK
BY DEF Shapes, IsWriter, Handles, FileTypeOK

LEMMA InitHandles == FileInit => Handles
BY DEF FileInit, Handles, AtRest

LEMMA StartKeepsHandles ==
  ASSUME Shapes, Handles, NEW i \in Inits, NEW text, NEW force, Start(i, text, force)
  PROVE  Handles'
<1> DEFINE w == [step |-> "look", text |-> text, force |-> force, handle |-> 0]
<1>1. w.step = "look" /\ w.handle = 0
  OBVIOUS
<1>2. writer' = [writer EXCEPT ![i] = w] /\ UNCHANGED <<config, temporary>>
  BY DEF Start
<1> HIDE DEF w
<1>3. writer'[i] = w /\ \A j \in Inits \ {i} : writer'[j] = writer[j]
  BY <1>2 DEF Shapes
<1> QED
  BY <1>1, <1>2, <1>3 DEF Handles

LEMMA WriterStepKeepsHandles ==
  ASSUME Shapes, Handles, NEW i \in Inits, WriterStep(i)
  PROVE  Handles'
<1>1. CASE Ends(i) /\ config' \in {config, temporary} /\ temporary' \in {0, temporary}
  <2>1. /\ \A j \in Inits : IsWriter(writer'[j])
        /\ writer'[i].step = "idle" /\ \A j \in Inits \ {i} : writer'[j] = writer[j]
    BY <1>1, EndsFacts
  <2>2. writer'[i].handle = 0
    BY <2>1 DEF IsWriter
  <2> QED
    BY <1>1, <2>1, <2>2 DEF Handles
<1>2. CASE Goes(i, "look", "open") /\ UNCHANGED <<config, temporary>>
  <2>1. /\ writer'[i].step = "open" /\ writer'[i].handle = writer[i].handle
        /\ \A j \in Inits \ {i} : writer'[j] = writer[j]
    BY <1>2, GoesFacts DEF Writing
  <2> QED
    BY <1>2, <2>1 DEF Handles
<1>3. CASE Open(i)
  <2>1. temporary' \in Files /\ temporary' # 0 /\ config' = config
    <3>1. writer[i].step = "open"
      BY <1>3 DEF Open, Opens
    <3> QED
      BY <1>3, <3>1, SomeFree, TwoFiles DEF Open, Handles
  <2>2. /\ writer'[i].step = "begin" /\ writer'[i].handle = temporary'
        /\ \A j \in Inits \ {i} : writer'[j] = writer[j]
    BY <1>3 DEF Open, Opens, Shapes, IsWriter
  <2> QED
    BY <2>1, <2>2 DEF Handles
<1>4. CASE Begins(i)
  <2>1. /\ writer[i].step = "begin" /\ writer'[i].handle = writer[i].handle
        /\ \A j \in Inits \ {i} : writer'[j] = writer[j]
    BY <1>4, GoesFacts DEF Begins, Writing
  <2> QED
    BY <1>4, <2>1 DEF Begins, Handles
<1>5. CASE Completes(i)
  <2>1. /\ writer'[i].step = "rename" /\ writer'[i].handle = 0
        /\ \A j \in Inits \ {i} : writer'[j] = writer[j]
    BY <1>5 DEF Completes, Shapes, IsWriter
  <2> QED
    BY <1>5, <2>1 DEF Completes, Handles
<1> QED
  BY <1>1, <1>2, <1>3, <1>4, <1>5 DEF WriterStep, Look, Rename, GivesUp, Dies

\* A file stays as it is, is emptied or has a part or the whole of the init's text.
Parts(text) == {NoText, [NoText EXCEPT !.torn = TRUE], CutInLine, text} \cup CutAtTable(text)

LEMMA ContentsOfFiles ==
  ASSUME NEW contents, FilesAre(contents)
  PROVE  \A f \in Files : file'[f] \in {contents[f], NoText}
BY DEF FilesAre

LEMMA TextsOfFiles ==
  ASSUME Shapes, NEW i \in Inits, WriterStep(i), NEW f \in Files
  PROVE  file'[f] = file[f] \/ file'[f] \in Parts(writer[i].text)
<1>1. CASE FilesAre(file) \/ UNCHANGED file
  BY <1>1, ContentsOfFiles DEF Parts
<1>2. ASSUME NEW g, NEW text \in Parts(writer[i].text), FilesAre([file EXCEPT ![g] = text])
      PROVE  file'[f] = file[f] \/ file'[f] \in Parts(writer[i].text)
  <2>1. [file EXCEPT ![g] = text][f] \in {file[f], text}
    BY DEF Shapes
  <2> QED
    BY <1>2, <2>1, ContentsOfFiles DEF Parts
<1>3. CASE Open(i)
  BY <1>2, <1>3 DEF Open, Opens, Parts
<1>4. CASE Begins(i)
  BY <1>2, <1>4 DEF Begins, Parts
<1>5. CASE Completes(i)
  BY <1>2, <1>5 DEF Completes, Parts
<1> QED
  BY <1>1, <1>3, <1>4, <1>5 DEF WriterStep, Look, Rename, GivesUp, Dies

LEMMA TextsOfWriters ==
  ASSUME Shapes, NEW i \in Inits, WriterStep(i), NEW j \in Inits
  PROVE  writer'[j].text \in {writer[j].text, NoText}
<1>1. CASE Ends(i)
  BY <1>1 DEF Ends, Shapes, AtRest
<1>2. ASSUME NEW from, NEW to, Goes(i, from, to)
      PROVE  writer'[j].text = writer[j].text
  BY <1>2 DEF Goes, Shapes, IsWriter
<1>3. CASE Open(i)
  BY <1>3 DEF Open, Opens, Shapes, IsWriter
<1>4. CASE Completes(i)
  BY <1>4 DEF Completes, Shapes, IsWriter
<1> QED
  BY <1>1, <1>2, <1>3, <1>4 DEF WriterStep, Look, Begins, Rename, GivesUp, Dies

\* An edit of the config leaves it as whole as it was.
LEMMA EditKeepsFileInv ==
  ASSUME FileInv, config # 0, NEW lines, NEW joins,
         file' = [file EXCEPT ![config].lines = lines, ![config].joins = joins],
         UNCHANGED <<config, temporary, writer, overlapped>>
  PROVE  FileInv'
<1>0. \A f \in Files : f # config => file'[f] = file[f]
  BY DEF FileInv, Shapes
<1>1. /\ DOMAIN file' = Files
      /\ \A f \in Files : IsText(file'[f]) /\ file'[f].torn = file[f].torn
  BY DEF FileInv, Shapes, IsText
<1>2. Shapes'
  BY <1>1 DEF FileInv, Shapes
<1>3. ASSUME Alone PROVE Alone'
  BY <1>1, <1>3 DEF Alone
<1>4. ASSUME Alone, WritesTemporary PROVE WritesTemporary'
  BY <1>0, <1>1, <1>4 DEF Alone, WritesTemporary
<1> QED
  BY <1>2, <1>3, <1>4 DEF FileInv

\* What the invariant says of a reader.
LEMMA FileInvIsWhole == FileInv => ConfigWhole
BY DEF FileInv, Shapes, Alone, ConfigWhole, Read, NoText

\* Who replaces a config.
LEMMA StepReplacesByForce ==
  ASSUME FileInv, NEW i \in Inits, WriterStep(i), config # 0, config' # config, ~overlapped
  PROVE  writer[i].step = "rename" /\ writer[i].force /\ Read' = writer[i].text
<1>1. Alone /\ WritesTemporary /\ Shapes
  BY DEF FileInv
<1>2. Rename(i)
  BY DEF WriterStep, Look, Open, Begins, Completes, GivesUp, Dies
<1>3. /\ writer[i].step = "rename" /\ temporary # 0 /\ config' = temporary /\ FilesAre(file)
  BY <1>2 DEF Rename
<1>4. file'[config'] = file[config']
  BY <1>1, <1>3, FilesAreFacts DEF Alone, Shapes
<1>5. writer[i].force /\ file[temporary] = writer[i].text
  BY <1>1, <1>3 DEF WritesTemporary, Writing
<1> QED
  BY <1>3, <1>4, <1>5 DEF Read
=============================================================================
