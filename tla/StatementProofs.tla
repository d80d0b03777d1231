----------------------------- MODULE StatementProofs -----------------------------
(***************************************************************************)
(* Bank statements, proved for any files, formats, mappings and people and *)
(* any statements, vouchers and invoices.  First StatementFiles, with      *)
(* anything happening while a job waits for its reading: what was signed   *)
(* off is not rewritten under the signature, and an acceptance sends a     *)
(* file of its format through the import again.  Then StatementLines: a    *)
(* line is stored once, and one live proposal speaks for it.  The two have *)
(* no state in common.                                                     *)
(***************************************************************************)
EXTENDS StatementLines, StatementFiles, Sums

JobRow == [phase : {"none", "queued", "reading"}, row : Mappings \cup {Nothing},
           signed : BOOLEAN, current : BOOLEAN]

(* What a job that reads may rely on when it saves: a row it saw signed off *)
(* still is; one it did not, and that nobody has written since, is not     *)
(* verified and reads as it read, and so does what anybody has accepted of *)
(* it meanwhile.                                                           *)
SaveIsSafe(f) ==
  job[f].phase = "reading" =>
    /\ job[f].signed => SignedOff(FormatOf[f])
    /\ ~job[f].signed /\ job[f].current =>
         /\ FormatOf[f] \notin verified
         /\ layout[FormatOf[f]] = job[f].row
         /\ \A a \in acceptances : a.format = FormatOf[f] => a.mapping = job[f].row

SavesAreSafe ==
  /\ job \in [Files -> JobRow]
  /\ layout \in [Formats -> Mappings \cup {Nothing}]
  /\ \A f \in Files : SaveIsSafe(f)

(* No job has seen a row yet.                                              *)
LEMMA InitSavesAreSafe == FilesInit => SavesAreSafe
  BY FilesAssumption DEF FilesInit, SavesAreSafe, SaveIsSafe, JobRow, NoJob, SignedOff

(* Signatures are not taken back.  A step keeps the jobs safe that puts    *)
(* into job no new reading and no old one whose row it writes or verifies, *)
(* unless it marks that one as outdated; what is accepted is the row.      *)
LEMMA SafeStep ==
  ASSUME SavesAreSafe, job' \in [Files -> JobRow],
         layout' \in [Formats -> Mappings \cup {Nothing}],
         verified \subseteq verified', acceptances \subseteq acceptances',
         \A f \in Files : job'[f].phase = "reading" =>
           /\ job[f].phase = "reading" /\ job'[f].signed = job[f].signed
           /\ \/ ~job'[f].current
              \/ /\ job'[f] = job[f]
                 /\ layout'[FormatOf[f]] = layout[FormatOf[f]]
                 /\ FormatOf[f] \in verified' => FormatOf[f] \in verified
                 /\ \A a \in acceptances' \ acceptances :
                      a.format = FormatOf[f] => a.mapping = layout[FormatOf[f]]
  PROVE  SavesAreSafe'
<1> SUFFICES ASSUME NEW f \in Files, job'[f].phase = "reading" PROVE SaveIsSafe(f)'
  BY DEF SavesAreSafe, SaveIsSafe
<1>1. job[f].phase = "reading" /\ SaveIsSafe(f)
  BY DEF SavesAreSafe
<1>2. job'[f].signed => SignedOff(FormatOf[f])'
  BY <1>1 DEF SaveIsSafe, SignedOff
<1>3. CASE ~job'[f].current
  BY <1>2, <1>3 DEF SaveIsSafe
<1>4. CASE job'[f].current
  BY <1>1, <1>2, <1>4 DEF SaveIsSafe
<1> QED  BY <1>3, <1>4

(* A step that leaves the rows and what is signed off alone.               *)
LEMMA QuietStep ==
  ASSUME SavesAreSafe, job' \in [Files -> JobRow],
         \A f \in Files : job'[f].phase = "reading" => job'[f] = job[f],
         UNCHANGED <<layout, verified, acceptances>>
  PROVE  SavesAreSafe'
<1>1. layout' \in [Formats -> Mappings \cup {Nothing}]
  BY DEF SavesAreSafe
<1> QED  BY <1>1, SafeStep

(* The jobs when the row of a format has been written.                     *)
LEMMA OutdatedJobs ==
  ASSUME SavesAreSafe, NEW fmt
  PROVE  /\ Outdated(fmt) \in [Files -> JobRow]
         /\ \A f \in Files :
              /\ Outdated(fmt)[f].phase = job[f].phase
              /\ Outdated(fmt)[f].signed = job[f].signed
              /\ FormatOf[f] = fmt => ~Outdated(fmt)[f].current
              /\ FormatOf[f] # fmt => Outdated(fmt)[f] = job[f]
  BY DEF Outdated, SavesAreSafe, JobRow

(* Writing one row, with or without verifying it; one job may end by it.   *)
LEMMA WritingStep ==
  ASSUME SavesAreSafe, NEW fmt,
         layout' \in [Formats -> Mappings \cup {Nothing}],
         \A g \in Formats : g # fmt => layout'[g] = layout[g],
         job' \in [Files -> JobRow],
         \A f \in Files : job'[f].phase = "reading" => job'[f] = Outdated(fmt)[f],
         verified \subseteq verified', verified' \subseteq verified \cup {fmt},
         UNCHANGED acceptances
  PROVE  SavesAreSafe'
<1>1. ASSUME NEW f \in Files, job'[f].phase = "reading"
      PROVE  /\ job[f].phase = "reading" /\ job'[f].signed = job[f].signed
             /\ \/ ~job'[f].current
                \/ /\ job'[f] = job[f]
                   /\ layout'[FormatOf[f]] = layout[FormatOf[f]]
                   /\ FormatOf[f] \in verified' => FormatOf[f] \in verified
  <2>1. job'[f] = Outdated(fmt)[f] /\ FormatOf[f] \in Formats
    BY <1>1, FilesAssumption
  <2> QED  BY <1>1, <2>1, OutdatedJobs
<1> QED  BY <1>1, SafeStep

LEMMA StoredIsAMapping ==
  ASSUME SavesAreSafe, NEW f \in Formats, NEW m \in Mappings, NEW s \in BOOLEAN
  PROVE  Stored(f, m, s) \in Mappings \cup {Nothing}
  BY DEF Stored, SavesAreSafe

(* store_layout: the row is left alone, or written.                        *)
LEMMA StoringStep ==
  ASSUME SavesAreSafe, NEW fmt, NEW m \in Mappings, NEW s \in BOOLEAN,
         layout' = [layout EXCEPT ![fmt] = Stored(fmt, m, s)],
         job' \in [Files -> JobRow],
         \A f \in Files : job'[f].phase = "reading" => job'[f] = Written(fmt, s)[f],
         UNCHANGED <<verified, acceptances>>
  PROVE  SavesAreSafe'
<1>1. CASE s
  <2>1. UNCHANGED layout
    BY <1>1 DEF Stored, SavesAreSafe
  <2> QED  BY <1>1, <2>1, QuietStep DEF Written
<1>2. CASE ~s
  <2>1. layout' \in [Formats -> Mappings \cup {Nothing}]
    BY <1>2 DEF Stored, SavesAreSafe
  <2>2. \A g \in Formats : g # fmt => layout'[g] = layout[g]
    BY DEF SavesAreSafe
  <2> QED  BY <1>2, <2>1, <2>2, WritingStep DEF Written
<1> QED  BY <1>1, <1>2

(* Every step keeps the jobs safe.                                         *)
LEMMA StepSavesAreSafe ==
  ASSUME SavesAreSafe, [FilesNext]_filesVars
  PROVE  SavesAreSafe'
<1> USE FilesAssumption
<1>0. NoJob \in JobRow /\ Queued \in JobRow /\ NoJob.phase = "none" /\ Queued.phase = "queued"
  BY DEF NoJob, Queued, JobRow
<1>1. ASSUME NEW f \in Files, Send(f) PROVE SavesAreSafe'
  BY <1>1, <1>0, QuietStep DEF Send, SavesAreSafe
<1>2. ASSUME NEW f \in Files, Imports(f) \/ Unreadable(f) \/ JobBreaks(f) PROVE SavesAreSafe'
  BY <1>2, <1>0, QuietStep DEF Imports, Unreadable, JobBreaks, SavesAreSafe
<1>3. ASSUME NEW f \in Files, AsksForAReading(f) PROVE SavesAreSafe'
  <2> DEFINE fmt == FormatOf[f]
             row == [phase |-> "reading", row |-> layout[fmt],
                     signed |-> SignedOff(fmt), current |-> ~SignedOff(fmt)]
  <2>1. row \in JobRow
    <3>1. SignedOff(fmt) \in BOOLEAN
      BY DEF SignedOff
    <3> QED BY <3>1 DEF JobRow, SavesAreSafe
  <2>2. job' = [job EXCEPT ![f] = row] /\ UNCHANGED <<layout, verified, acceptances>>
    BY <1>3 DEF AsksForAReading
  <2>3. row.row = layout[fmt] /\ (row.signed <=> SignedOff(fmt))
    OBVIOUS
  <2> HIDE DEF row
  <2>4. SaveIsSafe(f)'
    BY <2>1, <2>2, <2>3 DEF SaveIsSafe, SignedOff, SavesAreSafe
  <2>5. \A g \in Files : g # f => SaveIsSafe(g)'
    BY <2>2 DEF SaveIsSafe, SignedOff, SavesAreSafe
  <2>6. job' \in [Files -> JobRow] /\ layout' \in [Formats -> Mappings \cup {Nothing}]
    BY <2>1, <2>2 DEF SavesAreSafe
  <2> QED BY <2>4, <2>5, <2>6 DEF SavesAreSafe
<1>4. ASSUME NEW f \in Files, NEW m \in Mappings, OffersReading(f, m) PROVE SavesAreSafe'
  <2> DEFINE fmt == FormatOf[f]
             s == job[f].signed
  <2>1. s \in BOOLEAN
    BY DEF SavesAreSafe, JobRow
  <2>2. Written(fmt, s) \in [Files -> JobRow]
    BY OutdatedJobs DEF Written, SavesAreSafe
  <2>3. job' = [Written(fmt, s) EXCEPT ![f] = NoJob]
    BY <1>4 DEF OffersReading
  <2>4. /\ layout' = [layout EXCEPT ![fmt] = Stored(fmt, m, s)]
        /\ UNCHANGED <<verified, acceptances>>
    BY <1>4 DEF OffersReading
  <2> HIDE DEF fmt, s
  <2>5. job' \in [Files -> JobRow]
    BY <2>2, <2>3, <1>0
  <2>6. \A g \in Files : job'[g].phase = "reading" => job'[g] = Written(fmt, s)[g]
    BY <2>2, <2>3, <1>0
  <2> QED BY <2>1, <2>4, <2>5, <2>6, StoringStep
<1>5. ASSUME NEW f \in Files, AsksAboutStored(f) \/ AsksForColumns(f) PROVE SavesAreSafe'
  BY <1>5, <1>0, QuietStep DEF AsksAboutStored, AsksForColumns, SavesAreSafe
<1>6. ASSUME NEW c \in Chats, NEW m \in Mappings, AnswersColumns(c, m) PROVE SavesAreSafe'
  <2> DEFINE fmt == FormatOf[talk[c]]
             s == SignedOff(fmt)
  <2>1. s \in BOOLEAN
    BY DEF SignedOff
  <2>2. CASE UNCHANGED <<layout, job>>
    BY <1>6, <2>2, QuietStep DEF AnswersColumns, SavesAreSafe
  <2>3. CASE layout' = [layout EXCEPT ![fmt] = Stored(fmt, m, s)] /\ job' = Written(fmt, s)
    <3>1. job' \in [Files -> JobRow]
      BY <2>3, OutdatedJobs DEF Written, SavesAreSafe
    <3>2. UNCHANGED <<verified, acceptances>>
      BY <1>6 DEF AnswersColumns
    <3> HIDE DEF fmt, s
    <3> QED BY <2>1, <2>3, <3>1, <3>2, StoringStep
  <2> QED BY <1>6, <2>2, <2>3 DEF AnswersColumns, SavesLayout
<1>7. ASSUME NEW c \in Chats, Cancels(c) PROVE SavesAreSafe'
  BY <1>7, QuietStep DEF Cancels, SavesAreSafe
<1>8. ASSUME NEW k \in cards, Fix(k) \/ Leave(k) PROVE SavesAreSafe'
  BY <1>8, QuietStep DEF Fix, Leave, SavesAreSafe
<1>9. ASSUME NEW c, NEW company, NEW fmt, Accepts(c, company, fmt) PROVE SavesAreSafe'
  <2> DEFINE new == [company |-> company, format |-> fmt, mapping |-> layout[fmt]]
  <2>1. PICK again \in ComesBack(c, company, fmt) :
          job' = [f \in Files |-> IF f \in again /\ job[f] = NoJob THEN Queued ELSE job[f]]
    BY <1>9 DEF Accepts
  <2>2. acceptances' = acceptances \cup {new} /\ UNCHANGED <<layout, verified>>
    BY <1>9 DEF Accepts
  <2>3. new.format = fmt /\ new.mapping = layout[fmt]
    OBVIOUS
  <2> HIDE DEF new
  <2>4. job' \in [Files -> JobRow]
    BY <2>1, <1>0 DEF SavesAreSafe
  <2>5. \A f \in Files : job'[f].phase = "reading" => job'[f] = job[f]
    BY <2>1, <1>0
  <2>6. layout' \in [Formats -> Mappings \cup {Nothing}]
    BY <2>2 DEF SavesAreSafe
  <2>7. \A a \in acceptances' \ acceptances : a.mapping = layout[a.format]
    BY <2>2, <2>3
  <2> HIDE DEF new
  <2> QED BY <2>2, <2>4, <2>5, <2>6, <2>7, SafeStep
<1>10. ASSUME NEW f \in Formats, Verify(f) PROVE SavesAreSafe'
  <2>1. verified' = verified \cup {f} /\ job' = Outdated(f) /\ UNCHANGED <<layout, acceptances>>
    BY <1>10 DEF Verify
  <2>2. layout' \in [Formats -> Mappings \cup {Nothing}]
    BY <2>1 DEF SavesAreSafe
  <2> QED BY <2>1, <2>2, OutdatedJobs, WritingStep
<1>11. ASSUME NEW f \in Formats, NEW m \in Mappings, DeskEdit(f, m) PROVE SavesAreSafe'
  <2>1. /\ layout' = [layout EXCEPT ![f] = m] /\ job' = Outdated(f)
        /\ UNCHANGED <<verified, acceptances>>
    BY <1>11 DEF DeskEdit
  <2>2. /\ layout' \in [Formats -> Mappings \cup {Nothing}]
        /\ \A g \in Formats : g # f => layout'[g] = layout[g]
    BY <2>1 DEF SavesAreSafe
  <2> QED BY <2>1, <2>2, OutdatedJobs, WritingStep
<1>12. ASSUME NEW c \in Chats, NEW company \in Companies, SwitchCompany(c, company)
       PROVE  SavesAreSafe'
  BY <1>12, QuietStep DEF SwitchCompany, SavesAreSafe
<1>13. CASE UNCHANGED filesVars
  BY <1>13, QuietStep DEF filesVars, SavesAreSafe
<1> QED
  BY <1>1, <1>2, <1>3, <1>4, <1>5, <1>6, <1>7, <1>8, <1>9, <1>10, <1>11, <1>12, <1>13
  DEF FilesNext, Accept, AcceptFromList

(* What is signed off is not rewritten under the signature, whatever       *)
(* happens while a job waits for its reading: the column questions leave a *)
(* signed row alone, a late reading leaves a verified one alone, and what  *)
(* it writes over a mapping accepted meanwhile no company uses before it   *)
(* is accepted again.                                                      *)
THEOREM NothingIsRewrittenUnasked == FilesSpec => RewritesAreAskedAbout
<1> DEFINE ByReading(f) == \E g \in Files : /\ FormatOf[g] = f
                                            /\ job[g].phase = "reading" /\ job'[g].phase = "none"
           AskedAbout ==
             \A f \in Formats :
               layout'[f] # layout[f] /\ (ByReading(f) \/ talk' # talk) =>
                 /\ f \notin verified
                 /\ talk' # talk => ~SignedOff(f)
                 /\ \A company \in Companies : ~Usable(company, f)'
<1>1. SavesAreSafe /\ FilesNext => AskedAbout
  <2> SUFFICES ASSUME SavesAreSafe, FilesNext, NEW fmt \in Formats, layout'[fmt] # layout[fmt],
                      ByReading(fmt) \/ talk' # talk
               PROVE  /\ fmt \notin verified
                      /\ talk' # talk => ~SignedOff(fmt)
                      /\ \A company \in Companies : ~Usable(company, fmt)'
    OBVIOUS
  <2> DEFINE Goal == /\ fmt \notin verified
                     /\ talk' # talk => ~SignedOff(fmt)
                     /\ \A company \in Companies : ~Usable(company, fmt)'
  <2>1. ASSUME NEW f \in Files, NEW m \in Mappings, OffersReading(f, m) PROVE Goal
    <3>1. /\ job[f].phase = "reading" /\ (job[f].signed \/ job[f].current)
          /\ layout' = [layout EXCEPT ![FormatOf[f]] = Stored(FormatOf[f], m, job[f].signed)]
          /\ UNCHANGED <<verified, acceptances, talk>>
      BY <2>1 DEF OffersReading
    <3>2. fmt = FormatOf[f] /\ ~job[f].signed /\ job[f].current
      BY <3>1 DEF Stored, SavesAreSafe
    <3>3. /\ fmt \notin verified /\ layout[fmt] = job[f].row
          /\ \A a \in acceptances : a.format = fmt => a.mapping = job[f].row
      BY <3>1, <3>2 DEF SavesAreSafe, SaveIsSafe
    <3>4. \A company \in Companies : ~Usable(company, fmt)'
      BY <3>1, <3>3 DEF Usable, AcceptedFor, Covers
    <3> QED BY <3>1, <3>3, <3>4
  <2>2. ASSUME NEW c \in Chats, NEW m \in Mappings, AnswersColumns(c, m) PROVE Goal
    <3>1. /\ UNCHANGED <<verified, acceptances>>
          /\ SavesLayout(c, talk[c], m)
      BY <2>2 DEF AnswersColumns
    <3>2. ~SignedOff(fmt)
      BY <3>1 DEF SavesLayout, Stored, SavesAreSafe
    <3>3. \A company \in Companies : ~Usable(company, fmt)'
      BY <3>1, <3>2 DEF SignedOff, Usable, AcceptedFor, Covers
    <3> QED BY <3>2, <3>3 DEF SignedOff
  <2>3. ASSUME NEW f \in Formats, NEW m \in Mappings, DeskEdit(f, m) PROVE Goal
    <3>1. job' = Outdated(f) /\ UNCHANGED talk
      BY <2>3 DEF DeskEdit
    <3> QED BY <3>1, OutdatedJobs
  <2>4. CASE layout' = layout
    BY <2>4
  <2> HIDE DEF Goal, ByReading
  <2>5. Goal
    BY <2>1, <2>2, <2>3, <2>4
    DEF FilesNext, Send, Imports, Unreadable, AsksForAReading, AsksAboutStored, AsksForColumns,
        JobBreaks, Cancels, Fix, Accept, AcceptFromList, Accepts, Leave, Verify, SwitchCompany
  <2> QED BY <2>5 DEF Goal
<1>2. SavesAreSafe /\ [FilesNext]_filesVars => [AskedAbout]_filesVars
  BY <1>1
<1>3. RewritesAreAskedAbout <=> [][AskedAbout]_filesVars
  BY DEF RewritesAreAskedAbout
<1> HIDE DEF AskedAbout
<1> QED BY <1>2, <1>3, InitSavesAreSafe, StepSavesAreSafe, PTL DEF FilesSpec

-----------------------------------------------------------------------------
(* An acceptance and the files it sends back.                              *)
Blocks == [chat : Chats, company : Companies, file : Files]

FilesKeepShape ==
  /\ DOMAIN job = Files
  /\ \A f \in Files : job[f].phase = "none" => job[f] = NoJob
  /\ blocks \in Seq(Blocks)
  /\ talk \in [Chats -> {Nothing} \cup Files]
  /\ \A k \in cards : k.chat \in Chats /\ k.company \in Companies /\ k.file \in Files
  /\ active \in [Chats -> Companies]

LEMMA InitShape == FilesInit => FilesKeepShape
BY DEF FilesInit, FilesKeepShape

(* An event that is repeated moves to the end of the log.                  *)
LEMMA RememberedIsALog ==
  ASSUME blocks \in Seq(Blocks), NEW b \in Blocks, NEW log \in Remembered(b)
  PROVE  log \in Seq(Blocks)
<1> DEFINE known == {i \in DOMAIN blocks : blocks[i] = b}
           Again(i) == Append(SubSeq(blocks, 1, i - 1) \o SubSeq(blocks, i + 1, Len(blocks)), b)
<1>1. \/ log = Append(blocks, b)
      \/ log = blocks
      \/ \E i \in known : log = Again(i)
  BY DEF Remembered
<1>2. Append(blocks, b) \in Seq(Blocks)
  OBVIOUS
<1>3. ASSUME NEW i \in known PROVE Again(i) \in Seq(Blocks)
  <2>1. i \in 1..Len(blocks) /\ Len(blocks) \in Nat
    OBVIOUS
  <2>2. SubSeq(blocks, 1, i - 1) \in Seq(Blocks)
    BY <2>1
  <2>3. SubSeq(blocks, i + 1, Len(blocks)) \in Seq(Blocks)
    BY <2>1
  <2>4. SubSeq(blocks, 1, i - 1) \o SubSeq(blocks, i + 1, Len(blocks)) \in Seq(Blocks)
    BY <2>2, <2>3
  <2> QED  BY <2>4
<1> QED  BY <1>1, <1>2, <1>3

(* Jobs that no longer hold the row as it is keep their phase.             *)
LEMMA OutdatedShape ==
  ASSUME FilesKeepShape, NEW fmt
  PROVE  /\ DOMAIN Outdated(fmt) = Files
         /\ \A g \in Files : Outdated(fmt)[g].phase = "none" => Outdated(fmt)[g] = NoJob
<1>1. ~NoJob.current
  BY DEF NoJob
<1> SUFFICES ASSUME NEW g \in Files, Outdated(fmt)[g].phase = "none"
             PROVE  Outdated(fmt)[g] = NoJob
  BY DEF Outdated
<1>2. CASE job[g].phase = "none"
  BY <1>1, <1>2 DEF Outdated, FilesKeepShape
<1>3. CASE job[g].phase # "none"
  BY <1>3 DEF Outdated
<1> QED  BY <1>2, <1>3

LEMMA WrittenShape ==
  ASSUME FilesKeepShape, NEW fmt, NEW s
  PROVE  /\ DOMAIN Written(fmt, s) = Files
         /\ \A g \in Files : Written(fmt, s)[g].phase = "none" => Written(fmt, s)[g] = NoJob
BY OutdatedShape DEF Written, FilesKeepShape

(* A step of the jobs alone.                                               *)
LEMMA JobShape ==
  ASSUME FilesKeepShape, NEW f \in Files,
         NEW row, row.phase = "none" => row = NoJob, job' = [job EXCEPT ![f] = row]
  PROVE  DOMAIN job' = Files /\ \A g \in Files : job'[g].phase = "none" => job'[g] = NoJob
BY DEF FilesKeepShape

LEMMA AskingShape ==
  ASSUME FilesKeepShape, NEW c \in Chats, NEW company \in Companies, NEW f \in Files,
         NEW kind, NEW shown, blocks' \in Remembered(Block(c, company, f)),
         cards' = cards \cup {Question(kind, c, company, f, shown)}
  PROVE  /\ blocks' \in Seq(Blocks)
         /\ \A k \in cards' : k.chat \in Chats /\ k.company \in Companies /\ k.file \in Files
<1>1. Block(c, company, f) \in Blocks
  BY DEF Block, Blocks
<1>2. blocks' \in Seq(Blocks)
  BY <1>1, RememberedIsALog DEF FilesKeepShape
<1>3. LET k == Question(kind, c, company, f, shown)
      IN k.chat \in Chats /\ k.company \in Companies /\ k.file \in Files
  BY DEF Question
<1> QED  BY <1>2, <1>3 DEF FilesKeepShape

LEMMA StepShape == FilesKeepShape /\ [FilesNext]_filesVars => FilesKeepShape'
<1> SUFFICES ASSUME FilesKeepShape, [FilesNext]_filesVars PROVE FilesKeepShape'
  OBVIOUS
<1> USE FilesAssumption
<1>0. NoJob.phase = "none" /\ Queued.phase # "none"
  BY DEF NoJob, Queued
<1>1. ASSUME NEW f \in Files,
             Send(f) \/ Imports(f) \/ Unreadable(f) \/ JobBreaks(f)
      PROVE  FilesKeepShape'
  <2>1. UNCHANGED <<blocks, cards, talk, active>>
    BY <1>1 DEF Send, Imports, Unreadable, JobBreaks
  <2>2. job' = [job EXCEPT ![f] = Queued] \/ job' = [job EXCEPT ![f] = NoJob]
    BY <1>1 DEF Send, Imports, Unreadable, JobBreaks
  <2> QED  BY <2>1, <2>2, <1>0, JobShape DEF FilesKeepShape
<1>2. ASSUME NEW f \in Files, AsksForAReading(f) PROVE FilesKeepShape'
  <2> DEFINE row == [phase |-> "reading", row |-> layout[FormatOf[f]],
                     signed |-> SignedOff(FormatOf[f]), current |-> ~SignedOff(FormatOf[f])]
  <2>1. row.phase # "none"
    OBVIOUS
  <2>2. job' = [job EXCEPT ![f] = row] /\ UNCHANGED <<blocks, cards, talk, active>>
    BY <1>2 DEF AsksForAReading
  <2> HIDE DEF row
  <2> QED  BY <2>1, <2>2, JobShape DEF FilesKeepShape
<1>3. ASSUME NEW f \in Files, NEW m \in Mappings, OffersReading(f, m) PROVE FilesKeepShape'
  <2>1. job' = [Written(FormatOf[f], job[f].signed) EXCEPT ![f] = NoJob]
        /\ UNCHANGED <<talk, active>>
        /\ blocks' \in Remembered(Block(SenderOf[f], CompanyOf[f], f))
        /\ cards' = cards \cup {Question("reading", SenderOf[f], CompanyOf[f], f, m)}
    BY <1>3 DEF OffersReading
  <2>2. SenderOf[f] \in Chats /\ CompanyOf[f] \in Companies
    OBVIOUS
  <2>3. DOMAIN job' = Files /\ \A g \in Files : job'[g].phase = "none" => job'[g] = NoJob
    BY <2>1, WrittenShape
  <2> QED  BY <2>1, <2>2, <2>3, AskingShape DEF FilesKeepShape
<1>4. ASSUME NEW f \in Files, AsksAboutStored(f) PROVE FilesKeepShape'
  <2>1. job' = [job EXCEPT ![f] = NoJob] /\ UNCHANGED <<talk, active>>
        /\ blocks' \in Remembered(Block(SenderOf[f], CompanyOf[f], f))
        /\ cards' = cards \cup {Question("stored", SenderOf[f], CompanyOf[f], f, job[f].row)}
    BY <1>4 DEF AsksAboutStored
  <2>2. SenderOf[f] \in Chats /\ CompanyOf[f] \in Companies
    OBVIOUS
  <2> QED  BY <2>1, <2>2, JobShape, AskingShape DEF FilesKeepShape
<1>5. ASSUME NEW f \in Files, AsksForColumns(f) PROVE FilesKeepShape'
  <2>1. job' = [job EXCEPT ![f] = NoJob] /\ UNCHANGED <<blocks, cards, active>>
    BY <1>5 DEF AsksForColumns
  <2>2. talk' \in [Chats -> {Nothing} \cup Files]
    BY <1>5 DEF AsksForColumns, FilesKeepShape
  <2> QED  BY <2>1, <2>2, JobShape DEF FilesKeepShape
<1>6. ASSUME NEW c \in Chats, NEW m \in Mappings, AnswersColumns(c, m) PROVE FilesKeepShape'
  <2>1. talk[c] \in Files /\ active[c] \in Companies
    BY <1>6 DEF AnswersColumns, FilesKeepShape
  <2>2. talk' = [talk EXCEPT ![c] = Nothing] /\ UNCHANGED active /\ SavesLayout(c, talk[c], m)
    BY <1>6 DEF AnswersColumns
  <2>3. /\ DOMAIN job' = Files /\ \A g \in Files : job'[g].phase = "none" => job'[g] = NoJob
        /\ blocks' \in Seq(Blocks)
        /\ \A k \in cards' : k.chat \in Chats /\ k.company \in Companies /\ k.file \in Files
    <3> DEFINE fmt == FormatOf[talk[c]]
    <3>1. CASE UNCHANGED <<job, blocks, cards>>
      BY <3>1 DEF FilesKeepShape
    <3>2. CASE /\ job' = Written(fmt, SignedOff(fmt))
               /\ blocks' \in Remembered(Block(c, active[c], talk[c]))
               /\ cards' = cards \cup {Question("stored", c, active[c], talk[c], m)}
      <4>1. DOMAIN job' = Files /\ \A g \in Files : job'[g].phase = "none" => job'[g] = NoJob
        BY <3>2, WrittenShape
      <4> QED  BY <3>2, <4>1, <2>1, AskingShape
    <3> QED  BY <2>2, <3>1, <3>2 DEF SavesLayout
  <2> QED  BY <2>2, <2>3 DEF FilesKeepShape
<1>7. ASSUME NEW c \in Chats, Cancels(c) PROVE FilesKeepShape'
  BY <1>7 DEF Cancels, FilesKeepShape
<1>8. ASSUME NEW k \in cards, Fix(k) PROVE FilesKeepShape'
  <2>1. k.chat \in Chats /\ k.file \in Files /\ active[k.chat] \in Companies
    BY <1>8 DEF FilesKeepShape
  <2>2. talk' = [talk EXCEPT ![k.chat] = k.file]
        /\ cards' = cards \ {k} /\ UNCHANGED <<job, blocks, active>>
    BY <1>8 DEF Fix
  <2> QED  BY <2>1, <2>2 DEF FilesKeepShape
<1>9. ASSUME NEW k \in cards, Leave(k) PROVE FilesKeepShape'
  BY <1>9 DEF Leave, FilesKeepShape
<1>10. ASSUME NEW c, NEW company, NEW fmt, Accepts(c, company, fmt), cards' \subseteq cards
       PROVE  FilesKeepShape'
  <2>1. PICK again \in ComesBack(c, company, fmt) :
          job' = [f \in Files |-> IF f \in again /\ job[f] = NoJob THEN Queued ELSE job[f]]
    BY <1>10 DEF Accepts
  <2>2. UNCHANGED <<blocks, talk, active>>
    BY <1>10 DEF Accepts
  <2> QED  BY <1>0, <1>10, <2>1, <2>2 DEF FilesKeepShape
<1>11. ASSUME NEW f \in Formats, Verify(f) \/ \E m \in Mappings : DeskEdit(f, m)
       PROVE  FilesKeepShape'
  <2>1. job' = Outdated(f) /\ UNCHANGED <<blocks, cards, talk, active>>
    BY <1>11 DEF Verify, DeskEdit
  <2>2. DOMAIN job' = Files /\ \A g \in Files : job'[g].phase = "none" => job'[g] = NoJob
    BY <2>1, OutdatedShape
  <2> QED  BY <2>1, <2>2 DEF FilesKeepShape
<1>12. ASSUME NEW c \in Chats, NEW company \in Companies, SwitchCompany(c, company)
       PROVE  FilesKeepShape'
  BY <1>12 DEF SwitchCompany, FilesKeepShape
<1>13. CASE UNCHANGED filesVars
  BY <1>13 DEF filesVars, FilesKeepShape
<1>14. ASSUME NEW k \in cards, Accept(k) PROVE FilesKeepShape'
  BY <1>10, <1>14 DEF Accept
<1>15. ASSUME NEW c \in Chats, NEW fmt \in Formats, AcceptFromList(c, fmt) PROVE FilesKeepShape'
  BY <1>10, <1>15 DEF AcceptFromList
<1> QED
  BY <1>1, <1>2, <1>3, <1>4, <1>5, <1>6, <1>7, <1>8, <1>9, <1>11, <1>12, <1>13, <1>14, <1>15
  DEF FilesNext

(* Of events on the log one is the newest.                                 *)
LEMMA NewestIsThere ==
  ASSUME blocks \in Seq(Blocks), NEW S \in SUBSET (DOMAIN blocks), S # {}
  PROVE  \E i \in S : blocks[i].file \in Newest(S)
<1> DEFINE n == Len(blocks)
           T == {n - i : i \in S}
<1>1. n \in Nat /\ \A i \in S : i \in 1..n
  OBVIOUS
<1> HIDE DEF n
<1>2. T \in SUBSET Nat /\ T # {}
  BY <1>1
<1>3. PICK least \in T : \A x \in T : least =< x
  BY <1>2, Least
<1>4. PICK i \in S : least = n - i
  BY <1>3
<1>5. \A j \in S : j =< i
  <2> TAKE j \in S
  <2>1. n - i =< n - j
    BY <1>3, <1>4
  <2> QED  BY <2>1, <1>1
<1> QED  BY <1>5 DEF Newest

(* The files that a tap sends back are of the format that was accepted, and *)
(* there is one.                                                           *)
LEMMA SomethingComesBack ==
  ASSUME FilesKeepShape, NEW c, NEW company, NEW fmt,
         UnreadBlocks(company, fmt) # {}, NEW again \in ComesBack(c, company, fmt)
  PROVE  \E f \in Files : f \in again /\ FormatOf[f] = fmt
<1>1. blocks \in Seq(Blocks) /\ \A i \in DOMAIN blocks : blocks[i].file \in Files
  <2>1. blocks \in Seq(Blocks) /\ \A i \in DOMAIN blocks : blocks[i] \in Blocks
    BY DEF FilesKeepShape
  <2>2. \A b \in Blocks : b.file \in Files
    BY DEF Blocks
  <2> QED  BY <2>1, <2>2
<1>2. ASSUME NEW S \in SUBSET (DOMAIN blocks), S # {},
             \A i \in S : FormatOf[blocks[i].file] = fmt, again = Newest(S)
      PROVE  \E f \in Files : f \in again /\ FormatOf[f] = fmt
  <2>1. PICK i \in S : blocks[i].file \in Newest(S)
    BY <1>1, <1>2, NewestIsThere
  <2>2. blocks[i].file \in Files /\ FormatOf[blocks[i].file] = fmt
    BY <1>1, <1>2
  <2> QED  BY <1>2, <2>1, <2>2
<1>3. \/ again = Newest(UnreadBlocks(company, fmt))
      \/ /\ again = Newest(OwnBlocks(c, company, fmt))
         /\ OwnBlocks(c, company, fmt) # {}
  BY Zenon DEF ComesBack
<1>4. CASE again = Newest(UnreadBlocks(company, fmt))
  BY <1>2, <1>4 DEF UnreadBlocks
<1>5. CASE again = Newest(OwnBlocks(c, company, fmt)) /\ OwnBlocks(c, company, fmt) # {}
  BY <1>2, <1>5 DEF OwnBlocks
<1> QED  BY <1>3, <1>4, <1>5

(* As long as a file that the mapping held up for the company is unread,   *)
(* whoever accepts it, under a card or in the list, sends a file of the    *)
(* format through the import, whatever jobs are reading.                   *)
THEOREM AcceptancesFindAFile == FilesSpec => AcceptanceFindsAFile
<1> DEFINE Finds ==
      \A a \in acceptances' \ acceptances :
        UnreadBlocks(a.company, a.format) # {} =>
          \E f \in Files : FormatOf[f] = a.format /\ job'[f].phase # "none"
<1>1. ASSUME FilesKeepShape, NEW c, NEW company, NEW fmt, Accepts(c, company, fmt) PROVE Finds
  <2> DEFINE new == [company |-> company, format |-> fmt, mapping |-> layout[fmt]]
  <2>1. acceptances' = acceptances \cup {new}
    BY <1>1 DEF Accepts
  <2>2. new.company = company /\ new.format = fmt
    OBVIOUS
  <2> HIDE DEF new
  <2> SUFFICES ASSUME UnreadBlocks(company, fmt) # {}
               PROVE  \E f \in Files : FormatOf[f] = fmt /\ job'[f].phase # "none"
    BY <2>1, <2>2
  <2>3. PICK again \in ComesBack(c, company, fmt) :
          job' = [f \in Files |-> IF f \in again /\ job[f] = NoJob THEN Queued ELSE job[f]]
    BY <1>1 DEF Accepts
  <2>4. PICK f \in Files : f \in again /\ FormatOf[f] = fmt
    BY <1>1, SomethingComesBack
  <2>5. Queued.phase # "none"
    BY DEF Queued, NoJob
  <2> QED  BY <1>1, <2>3, <2>4, <2>5 DEF FilesKeepShape
<1>2. ASSUME FilesKeepShape, FilesNext PROVE Finds
  <2>1. CASE \E c, company, fmt : Accepts(c, company, fmt)
    BY <1>1, <1>2, <2>1
  <2>2. CASE acceptances' = acceptances
    BY <2>2
  <2> QED
    BY <1>2, <2>1, <2>2
    DEF FilesNext, Send, Imports, Unreadable, AsksForAReading, OffersReading, AsksAboutStored,
        AsksForColumns, JobBreaks, AnswersColumns, Cancels, Fix, Accept, AcceptFromList, Leave,
        Verify, DeskEdit, SwitchCompany
<1>3. FilesKeepShape /\ [FilesNext]_filesVars => [Finds]_filesVars
  BY <1>2
<1> QED  BY <1>3, InitShape, StepShape, PTL DEF FilesSpec, AcceptanceFindsAFile

-----------------------------------------------------------------------------
(* StatementLines.  What the rows hold besides their line and status does  *)
(* not matter here, so sums of allocations stay closed.                    *)
RowsHaveShape ==
  /\ \A t \in DOMAIN bt : DOMAIN bt[t] = {"line", "paid"}
  /\ \A p \in DOMAIN proposal : DOMAIN proposal[p] = {"row", "pair", "status"}

IInv == RowsHaveShape /\ NoLineTwice /\ OneLiveProposalPerLine

(* The lines keep what their statement says.                               *)
LinesStay ==
  /\ DOMAIN bt' = DOMAIN bt
  /\ \A t \in DOMAIN bt : DOMAIN bt'[t] = DOMAIN bt[t] /\ bt'[t].line = bt[t].line

(* A new proposal for a line that no live one speaks for.                  *)
Proposes(t, p) ==
  \E d \in DOMAIN bt \cup {None} :
    /\ Existing(t) = {} /\ p \notin DOMAIN proposal
    /\ proposal' = Put(proposal, p, [row |-> t, pair |-> d, status |-> "proposed"])

(* A live proposal is decided.                                             *)
Decides(p) ==
  \E s \in {"posted", "rejected"} :
    /\ p \in DOMAIN proposal /\ proposal[p].status = "proposed"
    /\ proposal' = [proposal EXCEPT ![p].status = s]

-----------------------------------------------------------------------------
(* Nothing is stored yet.                                                  *)
LEMMA InitInv == Init => IInv
  BY DEF Init, IInv, RowsHaveShape, NoLineTwice, OneLiveProposalPerLine

(* An import stores only lines whose fingerprint it does not find, under   *)
(* names of their own.                                                     *)
LEMMA ImportStoresOnce ==
  ASSUME IInv, NEW S \in Statements, NEW N \in NewLines(S), Stores(N), UNCHANGED proposal
  PROVE  IInv'
<1>1. N \subseteq S /\ \A l \in N : ~Known(l)
  BY DEF NewLines
<1>2a. PICK T \in SUBSET (Rows \ DOMAIN bt) : \E row \in Bijection(N, T) :
        bt' = [t \in DOMAIN bt \cup T |->
                 IF t \in T THEN [line |-> CHOOSE l \in N : row[l] = t,
                                  paid |-> [v \in Vouchers |-> 0]]
                 ELSE bt[t]]
  BY Zenon DEF Stores, kSubset
<1>2. PICK row \in Bijection(N, T) :
        bt' = [t \in DOMAIN bt \cup T |->
                 IF t \in T THEN [line |-> CHOOSE l \in N : row[l] = t,
                                  paid |-> [v \in Vouchers |-> 0]]
                 ELSE bt[t]]
  BY <1>2a
<1>3. \A t \in T : bt'[t].line \in N /\ row[bt'[t].line] = t /\ DOMAIN bt'[t] = {"line", "paid"}
  <2> SUFFICES ASSUME NEW t \in T
               PROVE  bt'[t].line \in N /\ row[bt'[t].line] = t /\ DOMAIN bt'[t] = {"line", "paid"}
    OBVIOUS
  <2>1. \E l \in N : row[l] = t
    BY DEF Bijection, Surjection
  <2>2. bt'[t] = [line |-> CHOOSE l \in N : row[l] = t, paid |-> [v \in Vouchers |-> 0]]
    BY <1>2
  <2> DEFINE line == CHOOSE l \in N : row[l] = t
  <2>3. line \in N /\ row[line] = t
    BY <2>1
  <2> HIDE DEF line
  <2> QED BY <2>2, <2>3 DEF line
<1>4. \A t \in DOMAIN bt : bt'[t] = bt[t]
  BY <1>2
<1>5. DOMAIN bt' = DOMAIN bt \cup T
  BY <1>2
<1>6. NoLineTwice'
  <2>1. \A t \in DOMAIN bt : bt[t].line \notin N
    BY <1>1 DEF Known
  <2> QED BY <1>3, <1>4, <1>5, <2>1 DEF IInv, NoLineTwice
<1>7. RowsHaveShape' /\ OneLiveProposalPerLine'
  BY <1>3, <1>4, <1>5 DEF IInv, RowsHaveShape, OneLiveProposalPerLine
<1> QED BY <1>6, <1>7 DEF IInv

(* Matching, settling and cancelling leave the lines what they are.        *)
LEMMA LinesStayInv ==
  ASSUME IInv, LinesStay, UNCHANGED proposal
  PROVE  IInv'
  BY DEF IInv, LinesStay, RowsHaveShape, NoLineTwice, OneLiveProposalPerLine

(* A proposal is made only where no live one is.                           *)
LEMMA ProposesInv ==
  ASSUME IInv, NEW t, NEW p, Proposes(t, p), UNCHANGED bt
  PROVE  IInv'
<1>1. PICK d : proposal' = Put(proposal, p, [row |-> t, pair |-> d, status |-> "proposed"])
  BY DEF Proposes
<1>2. p \notin DOMAIN proposal /\ Existing(t) = {}
  BY DEF Proposes
<1>3. \A q \in DOMAIN proposal : proposal[q].row = t => proposal[q].status = "rejected"
  BY <1>2 DEF Existing
<1> QED BY <1>1, <1>2, <1>3 DEF Put, IInv, RowsHaveShape, NoLineTwice, OneLiveProposalPerLine

(* A decision brings no proposal back to life.                             *)
LEMMA DecidesInv ==
  ASSUME IInv, NEW p, Decides(p), UNCHANGED bt
  PROVE  IInv'
<1>1. PICK s \in {"posted", "rejected"} :
        /\ p \in DOMAIN proposal /\ proposal[p].status = "proposed"
        /\ proposal' = [proposal EXCEPT ![p] = [proposal[p] EXCEPT !.status = s]]
  BY DEF Decides
<1>2. /\ DOMAIN proposal' = DOMAIN proposal
      /\ \A q \in DOMAIN proposal :
           /\ DOMAIN proposal'[q] = {"row", "pair", "status"}
           /\ proposal'[q].row = proposal[q].row
           /\ proposal[q].status = "rejected" => proposal'[q].status = "rejected"
  BY <1>1 DEF IInv, RowsHaveShape
<1> QED BY <1>2 DEF IInv, RowsHaveShape, NoLineTwice, OneLiveProposalPerLine

-----------------------------------------------------------------------------
(* Writing what is paid touches no line.                                   *)
LEMMA PaidOnly ==
  ASSUME IInv, NEW t, NEW v, NEW x, bt' = [bt EXCEPT ![t].paid[v] = x]
  PROVE  LinesStay
  BY DEF IInv, RowsHaveShape, LinesStay

(* The steps of a matching run.                                            *)
LEMMA RunSteps == ASSUME IInv, RunStep PROVE IInv'
<1>1. ASSUME NEW w \in DOMAIN bt, NEW d \in DOMAIN bt, NEW p \in Proposals,
             RunProposesTransfer(w, d, p)
      PROVE  IInv'
  BY <1>1, ProposesInv DEF RunProposesTransfer, Proposes
<1>2. ASSUME NEW t \in DOMAIN bt, NEW p \in Proposals, RunProposesFee(t, p)
      PROVE  IInv'
  BY <1>2, ProposesInv DEF RunProposesFee, Proposes
<1>3. ASSUME NEW t \in DOMAIN bt, NEW v \in Vouchers, RunMatches(t, v)
      PROVE  IInv'
  BY <1>3, PaidOnly, LinesStayInv DEF RunMatches, Reconcile
<1>4. CASE \/ \E w, d \in DOMAIN bt : RunPassesPair(w, d)
           \/ RunGoesToLines \/ (\E t \in DOMAIN bt : RunLeaves(t)) \/ RunEnds \/ RunBreaks
  <2>1. UNCHANGED <<bt, proposal>>
    BY <1>4 DEF RunPassesPair, RunGoesToLines, RunLeaves, RunEnds, RunBreaks
  <2> QED BY <2>1 DEF IInv, RowsHaveShape, NoLineTwice, OneLiveProposalPerLine
<1> QED BY <1>1, <1>2, <1>3, <1>4 DEF RunStep

(* The taps.                                                               *)
LEMMA TapSteps == ASSUME IInv, Tap PROVE IInv'
<1>1. ASSUME NEW t \in Rows, NEW v \in Vouchers, Match(t, v) PROVE IInv'
  BY <1>1, PaidOnly, LinesStayInv DEF Match, Reconcile
<1>2. ASSUME NEW t \in Rows, NEW v \in Vouchers, NEW i \in Invoices, Settle(t, i, v)
      PROVE  IInv'
  BY <1>2, PaidOnly, LinesStayInv DEF Settle
<1>3. ASSUME NEW t \in Rows, NEW p \in Proposals, ProposeExpense(t, p) PROVE IInv'
  BY <1>3, ProposesInv DEF ProposeExpense, Proposes
<1>4. ASSUME NEW p \in DOMAIN proposal, RejectProposal(p) PROVE IInv'
  BY <1>4, DecidesInv DEF RejectProposal, Decides
<1>5. ASSUME NEW p \in DOMAIN proposal, NEW v \in Vouchers, ApproveProposal(p, v) PROVE IInv'
  BY <1>5, DecidesInv DEF ApproveProposal, Decides
<1>6. CASE Forget \/ \E t \in Rows : Search(t)
  <2>1. UNCHANGED <<bt, proposal>>
    BY <1>6 DEF Forget, Search
  <2> QED BY <2>1 DEF IInv, RowsHaveShape, NoLineTwice, OneLiveProposalPerLine
<1> QED BY <1>1, <1>2, <1>3, <1>4, <1>5, <1>6 DEF Tap

(* What happens elsewhere.                                                 *)
LEMMA DeskSteps == ASSUME IInv, Desk PROVE IInv'
<1>1. ASSUME NEW v \in Vouchers, NEW moves \in DeskMoves, PostVoucher(v, moves) PROVE IInv'
  BY <1>1 DEF PostVoucher, IInv, RowsHaveShape, NoLineTwice, OneLiveProposalPerLine
<1>2. ASSUME NEW v \in DOMAIN voucher, CancelPayment(v) PROVE IInv'
  <2>1. LinesStay
    BY <1>2 DEF CancelPayment, Release, LinesStay, IInv, RowsHaveShape
  <2> QED BY <1>2, <2>1, LinesStayInv DEF CancelPayment
<1> QED BY <1>1, <1>2 DEF Desk

(* Every step keeps the invariant.                                         *)
LEMMA StepInv == IInv /\ [Next]_vars => IInv'
<1> SUFFICES ASSUME IInv, [Next]_vars PROVE IInv'
  OBVIOUS
<1>1. ASSUME NEW S \in Statements, Import(S) PROVE IInv'
  <2>1. PICK N \in NewLines(S) : Stores(N) \/ UNCHANGED bt
    BY <1>1 DEF Import
  <2>2. UNCHANGED proposal
    BY <1>1 DEF Import
  <2>3. CASE Stores(N)
    BY <2>2, <2>3, ImportStoresOnce
  <2>4. CASE UNCHANGED bt
    BY <2>2, <2>4 DEF IInv, RowsHaveShape, NoLineTwice, OneLiveProposalPerLine
  <2> QED BY <2>1, <2>3, <2>4
<1>2. CASE UNCHANGED vars
  BY <1>2 DEF vars, IInv, RowsHaveShape, NoLineTwice, OneLiveProposalPerLine
<1> QED BY <1>1, <1>2, RunSteps, TapSteps, DeskSteps DEF Next

(* A line is in the books once, however the statements overlap             *)
(* (bank_import.create_bank_transactions).                                 *)
THEOREM LinesAreStoredOnce == Spec => []NoLineTwice
<1>1. IInv => NoLineTwice
  BY DEF IInv
<1> QED BY InitInv, StepInv, <1>1, PTL DEF Spec

(* A line has one live proposal, whoever made it: a matching run, a tap, a *)
(* run that was broken off and its successor (rules.existing_proposal).    *)
THEOREM LinesAreExplainedOnce == Spec => []OneLiveProposalPerLine
<1>1. IInv => OneLiveProposalPerLine
  BY DEF IInv
<1> QED BY InitInv, StepInv, <1>1, PTL DEF Spec

(* Both together: what comes in overlapping files is one row and one       *)
(* explanation (create_bank_transactions, existing_proposal).              *)
THEOREM LinesAreTakenOnce == Spec => []OneRowOneProposal
<1>1. NoLineTwice /\ OneLiveProposalPerLine => OneRowOneProposal
  BY DEF OneRowOneProposal
<1> QED BY LinesAreStoredOnce, LinesAreExplainedOnce, <1>1, PTL

-----------------------------------------------------------------------------
(* StatementLines: the sums.  Allocations are a table of lines and         *)
(* vouchers; its rows, its columns on one bank and the payments of an      *)
(* invoice are totals (Sums).  The invariant is TInv /\ SumsFit: the types *)
(* with what a run may take for granted of its lines, and the sums with    *)
(* where each standing payment is.                                         *)

(* A column of the allocations: what each line has of v.                   *)
Column(v) == [t \in Rows |-> bt[t].paid[v]]

Movements(v) == [b \in Banks |-> Size(voucher[v].moves[b])]

AllMoves == [v \in Vouchers |-> Moved(v)]

PaymentsOf(i) == {v \in Standing : voucher[v].pays = i}

(* The sums of the model as totals.                                        *)
LEMMA AllocatedIs == \A t : Allocated(t) = Total(bt[t].paid, Vouchers)
<1> TAKE t
<1> DEFINE f == bt[t].paid
<1>2. \A g : IsFold(g, f, Vouchers) <=>
        g = [s \in SUBSET Vouchers |-> IF s = {} THEN 0
                ELSE bt[t].paid[CHOOSE x \in s : TRUE] + g[s \ {CHOOSE x \in s : TRUE}]]
  BY DEF IsFold, Pick
<1>3. Allocated(t) = (CHOOSE g : g = [s \in SUBSET Vouchers |-> IF s = {} THEN 0
                ELSE bt[t].paid[CHOOSE x \in s : TRUE] + g[s \ {CHOOSE x \in s : TRUE}]])[Vouchers]
  BY DEF Allocated, MapThenSumSet, MapThenFoldSet
<1> QED BY <1>2, <1>3 DEF Total

(* What a voucher has on a set of lines is one column over it.             *)
LEMMA AllocatedByIs == \A v : \A T \in SUBSET Rows : AllocatedBy(T, v) = Total(Column(v), T)
<1> SUFFICES ASSUME NEW v, NEW T \in SUBSET Rows PROVE AllocatedBy(T, v) = Total(Column(v), T)
  OBVIOUS
<1>1. \A g : IsFold(g, Column(v), T) <=>
        g = [s \in SUBSET T |-> IF s = {} THEN 0
                ELSE bt[CHOOSE x \in s : TRUE].paid[v] + g[s \ {CHOOSE x \in s : TRUE}]]
  <2> SUFFICES ASSUME NEW g PROVE IsFold(g, Column(v), T) <=>
        g = [s \in SUBSET T |-> IF s = {} THEN 0
                ELSE bt[CHOOSE x \in s : TRUE].paid[v] + g[s \ {CHOOSE x \in s : TRUE}]]
    OBVIOUS
  <2>1. \A s \in SUBSET T : s # {} => Column(v)[Pick(s)] = bt[Pick(s)].paid[v]
    BY DEF Column, Pick
  <2> QED BY <2>1 DEF IsFold, Pick
<1>2. AllocatedBy(T, v) = (CHOOSE g : g = [s \in SUBSET T |-> IF s = {} THEN 0
                ELSE bt[CHOOSE x \in s : TRUE].paid[v] + g[s \ {CHOOSE x \in s : TRUE}]])[T]
  BY DEF AllocatedBy, MapThenSumSet, MapThenFoldSet
<1> QED BY <1>1, <1>2 DEF Total

(* What a voucher moves is a sum over the banks.                           *)
LEMMA MovedIs == \A v : Moved(v) = Total(Movements(v), Banks)
<1> TAKE v
<1>1. \A g : IsFold(g, Movements(v), Banks) <=>
        g = [s \in SUBSET Banks |-> IF s = {} THEN 0
                ELSE Size(voucher[v].moves[CHOOSE x \in s : TRUE]) + g[s \ {CHOOSE x \in s : TRUE}]]
  <2> SUFFICES ASSUME NEW g PROVE IsFold(g, Movements(v), Banks) <=>
        g = [s \in SUBSET Banks |-> IF s = {} THEN 0
                ELSE Size(voucher[v].moves[CHOOSE x \in s : TRUE]) + g[s \ {CHOOSE x \in s : TRUE}]]
    OBVIOUS
  <2>1. \A s \in SUBSET Banks : s # {} => Movements(v)[Pick(s)] = Size(voucher[v].moves[Pick(s)])
    BY DEF Movements, Pick
  <2> QED BY <2>1 DEF IsFold, Pick
<1>2. Moved(v) = (CHOOSE g : g = [s \in SUBSET Banks |-> IF s = {} THEN 0
                ELSE Size(voucher[v].moves[CHOOSE x \in s : TRUE]) + g[s \ {CHOOSE x \in s : TRUE}]])[Banks]
  BY DEF Moved, MapThenSumSet, MapThenFoldSet
<1> QED BY <1>1, <1>2 DEF Total

(* What is paid on an invoice is a sum over its standing payments.         *)
LEMMA PaidOnIs == DOMAIN voucher \subseteq Vouchers => \A i : PaidOn(i) = Total(AllMoves, PaymentsOf(i))
<1> SUFFICES ASSUME DOMAIN voucher \subseteq Vouchers, NEW i PROVE PaidOn(i) = Total(AllMoves, PaymentsOf(i))
  OBVIOUS
<1> DEFINE T == PaymentsOf(i)
<1>0. T \subseteq Vouchers
  BY DEF PaymentsOf, Standing
<1>1. \A g : IsFold(g, AllMoves, T) <=>
        g = [s \in SUBSET T |-> IF s = {} THEN 0
                ELSE Moved(CHOOSE x \in s : TRUE) + g[s \ {CHOOSE x \in s : TRUE}]]
  <2> SUFFICES ASSUME NEW g PROVE IsFold(g, AllMoves, T) <=>
        g = [s \in SUBSET T |-> IF s = {} THEN 0
                ELSE Moved(CHOOSE x \in s : TRUE) + g[s \ {CHOOSE x \in s : TRUE}]]
    OBVIOUS
  <2>1. \A s \in SUBSET T : s # {} => AllMoves[Pick(s)] = Moved(Pick(s))
    BY <1>0 DEF AllMoves, Pick
  <2> QED BY <2>1 DEF IsFold, Pick
<1>2. PaidOn(i) = (CHOOSE g : g = [s \in SUBSET T |-> IF s = {} THEN 0
                ELSE Moved(CHOOSE x \in s : TRUE) + g[s \ {CHOOSE x \in s : TRUE}]])[T]
  BY DEF PaidOn, MapThenSumSet, MapThenFoldSet, PaymentsOf
<1> QED BY <1>1, <1>2 DEF Total

(* The same of the next state.                                             *)
LEMMA SumsLater ==
  /\ \A t : Allocated(t)' = Total(bt'[t].paid, Vouchers)
  /\ \A v : \A T \in SUBSET Rows : AllocatedBy(T, v)' = Total(Column(v)', T)
  /\ \A v : Moved(v)' = Total(Movements(v)', Banks)
  /\ DOMAIN voucher' \subseteq Vouchers =>
       \A i : PaidOn(i)' = Total(AllMoves', PaymentsOf(i)')
<1>1. (\A t : Allocated(t) = Total(bt[t].paid, Vouchers))'
  BY AllocatedIs, PTL
<1>2. (\A v : \A T \in SUBSET Rows : AllocatedBy(T, v) = Total(Column(v), T))'
  BY AllocatedByIs, PTL
<1>3. (\A v : Moved(v) = Total(Movements(v), Banks))'
  BY MovedIs, PTL
<1>4. (DOMAIN voucher \subseteq Vouchers => \A i : PaidOn(i) = Total(AllMoves, PaymentsOf(i)))'
  BY PaidOnIs, PTL
<1> QED BY <1>1, <1>2, <1>3, <1>4

-----------------------------------------------------------------------------
LinesFit == \A t \in DOMAIN bt : Unallocated(t) >= 0

OnlyStanding == \A t \in DOMAIN bt : \A v \in Vouchers : bt[t].paid[v] > 0 => v \in Standing

VouchersFit ==
  \A b \in Banks : \A v \in DOMAIN voucher :
    AllocatedBy(RowsAt(b), v) <= Size(voucher[v].moves[b])

(* A standing payment is on one line, and moves that line's bank alone.    *)
Settles(t, v) ==
  /\ bt[t].paid[v] = Size(voucher[v].moves[Bank(t)]) /\ bt[t].paid[v] > 0
  /\ \A u \in DOMAIN bt : bt[u].paid[v] > 0 => u = t
  /\ \A b \in Banks : b # Bank(t) => voucher[v].moves[b] = 0

PaymentsSettle == \A v \in Standing : voucher[v].pays # None => \E t \in DOMAIN bt : Settles(t, v)


-----------------------------------------------------------------------------
(* What the types say of the sums.                                         *)
LEMMA Cells ==
  ASSUME TypeOK
  PROVE  /\ DOMAIN bt \subseteq Rows
         /\ \A t \in DOMAIN bt : /\ bt[t].paid \in [Vouchers -> Nat]
                               /\ bt[t] = [line |-> bt[t].line, paid |-> bt[t].paid]
                               /\ Bank(t) \in Banks
                               /\ Amount(t) \in Int \ {0} /\ Size(Amount(t)) \in Nat \ {0}
                               /\ Allocated(t) \in Nat
                               /\ Unallocated(t) \in Int
                               /\ \A v \in Vouchers : bt[t].paid[v] <= Allocated(t)
         /\ \A T \in SUBSET DOMAIN bt : \A v \in Vouchers :
              /\ AllocatedBy(T, v) = Total(Column(v), T) /\ AllocatedBy(T, v) \in Nat
              /\ IsFiniteSet(T)
         /\ \A b : RowsAt(b) \in SUBSET DOMAIN bt
<1>1. \A t \in DOMAIN bt : t \in Rows /\ bt[t] \in BtRow
  BY DEF TypeOK
<1>2. IsFiniteSet(Vouchers) /\ IsFiniteSet(Rows)
  BY LinesAssumption
<1>3. ASSUME NEW t \in DOMAIN bt
      PROVE  /\ bt[t].paid \in [Vouchers -> Nat]
             /\ bt[t] = [line |-> bt[t].line, paid |-> bt[t].paid]
             /\ Bank(t) \in Banks
             /\ Amount(t) \in Int \ {0} /\ Size(Amount(t)) \in Nat \ {0}
             /\ Allocated(t) \in Nat
             /\ Unallocated(t) \in Int
             /\ \A v \in Vouchers : bt[t].paid[v] <= Allocated(t)
  <2>1. bt[t].line \in Lines /\ bt[t].paid \in [Vouchers -> Nat]
        /\ bt[t] = [line |-> bt[t].line, paid |-> bt[t].paid]
    BY <1>1 DEF BtRow
  <2>2. Attr[bt[t].line] \in [bank : Banks, amount : Int \ {0}, narrative : {"plain", "fee", "own"}]
    BY <2>1, LinesAssumption
  <2>3. Bank(t) \in Banks /\ Amount(t) \in Int \ {0}
    BY <2>2 DEF Bank, Amount
  <2>4. Size(Amount(t)) \in Nat \ {0}
    BY <2>3 DEF Size
  <2>5. Allocated(t) = Total(bt[t].paid, Vouchers)
    BY AllocatedIs
  <2>6. /\ Total(bt[t].paid, Vouchers) \in Nat
        /\ \A R \in SUBSET Vouchers : Total(bt[t].paid, R) <= Total(bt[t].paid, Vouchers)
    BY <1>2, <2>1, TotalNat
  <2>7. ASSUME NEW v \in Vouchers PROVE bt[t].paid[v] <= Allocated(t)
    <3>1. Total(bt[t].paid, {v}) = bt[t].paid[v]
      BY <2>1, TotalOne
    <3>2. Total(bt[t].paid, {v}) <= Total(bt[t].paid, Vouchers)
      BY <2>6
    <3> QED BY <2>5, <3>1, <3>2
  <2>8. Unallocated(t) \in Int
    BY <2>4, <2>5, <2>6 DEF Unallocated
  <2> QED BY <2>1, <2>3, <2>4, <2>5, <2>6, <2>7, <2>8
<1>4. ASSUME NEW T \in SUBSET DOMAIN bt, NEW v \in Vouchers
      PROVE  /\ AllocatedBy(T, v) = Total(Column(v), T) /\ AllocatedBy(T, v) \in Nat
             /\ IsFiniteSet(T)
  <2>1. T \in SUBSET Rows /\ \A t \in T : Column(v)[t] \in Nat
    BY <1>1, <1>3 DEF Column
  <2>2. IsFiniteSet(T)
    BY <1>2, <2>1, FS_Subset
  <2>3. AllocatedBy(T, v) = Total(Column(v), T)
    BY <2>1, AllocatedByIs
  <2> QED BY <2>1, <2>2, <2>3, TotalNat
<1>4a. IsFiniteSet({})
  BY FS_EmptySet
<1>5. \A b : RowsAt(b) \in SUBSET DOMAIN bt
  BY DEF RowsAt
<1>6. DOMAIN bt \subseteq Rows
  BY <1>1
<1> QED BY <1>3, <1>4, <1>5, <1>6, <1>2, FS_Subset

(* One allocation is written: what it does to the sums.                    *)
CellIs(t, v, x) ==
  /\ DOMAIN bt' = DOMAIN bt
  /\ \A u \in DOMAIN bt :
       /\ bt'[u] \in BtRow /\ bt'[u].line = bt[u].line
       /\ Bank(u)' = Bank(u) /\ Amount(u)' = Amount(u)
       /\ \A w \in Vouchers : bt'[u].paid[w] = IF u = t /\ w = v THEN x ELSE bt[u].paid[w]
       /\ Allocated(u)' = IF u = t THEN Allocated(t) - bt[t].paid[v] + x ELSE Allocated(u)
  /\ \A b : RowsAt(b)' = RowsAt(b)
  /\ \A b : \A w \in Vouchers :
       AllocatedBy(RowsAt(b), w)' =
         IF b = Bank(t) /\ w = v THEN AllocatedBy(RowsAt(b), v) - bt[t].paid[v] + x
         ELSE AllocatedBy(RowsAt(b), w)

(* A new value in one cell changes its line's sum, and its column's on the *)
(* line's own bank.                                                        *)
LEMMA CellChanges ==
  ASSUME TypeOK, NEW t \in DOMAIN bt, NEW v \in Vouchers, NEW x \in Nat,
         bt' = [bt EXCEPT ![t].paid[v] = x]
  PROVE  CellIs(t, v, x)
<1>1. /\ DOMAIN bt' = DOMAIN bt
      /\ \A u \in DOMAIN bt :
           /\ bt'[u] \in BtRow /\ bt'[u].line = bt[u].line
           /\ \A w \in Vouchers : bt'[u].paid[w] = IF u = t /\ w = v THEN x ELSE bt[u].paid[w]
  BY DEF TypeOK, BtRow
<1>2. \A u \in DOMAIN bt : Bank(u)' = Bank(u) /\ Amount(u)' = Amount(u)
  BY <1>1 DEF Bank, Amount
<1>3. \A b : RowsAt(b)' = RowsAt(b)
  BY <1>1, <1>2 DEF RowsAt
<1>4. IsFiniteSet(Vouchers)
  BY LinesAssumption
<1>5. ASSUME NEW u \in DOMAIN bt
      PROVE  Allocated(u)' = IF u = t THEN Allocated(t) - bt[t].paid[v] + x ELSE Allocated(u)
  <2>1. Allocated(u) = Total(bt[u].paid, Vouchers) /\ Allocated(u)' = Total(bt'[u].paid, Vouchers)
    BY AllocatedIs, SumsLater
  <2>2. \A w \in Vouchers : bt[u].paid[w] \in Int /\ bt'[u].paid[w] \in Int
    BY <1>1, Cells
  <2>3. CASE u = t
    <3>1. PICK f, e : f = bt[u].paid /\ e = bt'[u].paid
      OBVIOUS
    <3>2. /\ \A w \in Vouchers : f[w] \in Int /\ e[w] \in Int
          /\ \A w \in Vouchers : w # v => e[w] = f[w]
          /\ e[v] = x
      <4>1. \A w \in Vouchers : bt'[u].paid[w] = IF u = t /\ w = v THEN x ELSE bt[u].paid[w]
        BY <1>1
      <4>2. \A w \in Vouchers : e[w] = IF w = v THEN x ELSE f[w]
        BY <4>1, <3>1, <2>3
      <4>3. \A w \in Vouchers : f[w] \in Int /\ e[w] \in Int
        BY <2>2, <3>1
      <4> QED BY <4>2, <4>3
    <3>3. Total(e, Vouchers) = Total(f, Vouchers) - f[v] + e[v]
      BY <1>4, <3>2, TotalChange
    <3> QED BY <2>1, <2>3, <3>1, <3>2, <3>3
  <2>4. CASE u # t
    <3>1. Total(bt'[u].paid, Vouchers) = Total(bt[u].paid, Vouchers)
      BY <1>1, <1>4, <2>4, TotalAgrees
    <3> QED BY <2>1, <2>4, <3>1
  <2> QED BY <2>3, <2>4
<1>6. ASSUME NEW b, NEW w \in Vouchers
      PROVE  AllocatedBy(RowsAt(b), w)' =
               IF b = Bank(t) /\ w = v THEN AllocatedBy(RowsAt(b), v) - bt[t].paid[v] + x
               ELSE AllocatedBy(RowsAt(b), w)
  <2> DEFINE Now == Column(w)
             Then == Column(w)'
  <2>0. PICK T : T = RowsAt(b)
    OBVIOUS
  <2>1. T \in SUBSET Rows /\ T \in SUBSET DOMAIN bt /\ T = RowsAt(b)'
    BY <1>3, <2>0, Cells
  <2>2. IsFiniteSet(T)
    BY <2>1, Cells
  <2>3. AllocatedBy(RowsAt(b), w) = Total(Now, T) /\ AllocatedBy(RowsAt(b), w)' = Total(Then, T)
    BY <2>0, <2>1, AllocatedByIs, SumsLater
  <2>4. \A u \in T : /\ Now[u] = bt[u].paid[w] /\ Now[u] \in Int
                    /\ Then[u] = bt'[u].paid[w] /\ Then[u] \in Int
    BY <1>1, <2>1, Cells DEF Column
  <2>5. t \in T <=> b = Bank(t)
    BY <2>0 DEF RowsAt
  <2> HIDE DEF Now, Then
  <2>6. CASE b = Bank(t) /\ w = v
    <3>1. PICK f, e : f = Now /\ e = Then
      OBVIOUS
    <3>2. /\ t \in T
          /\ \A u \in T : f[u] \in Int /\ e[u] \in Int
          /\ \A u \in T : u # t => e[u] = f[u]
          /\ f[t] = bt[t].paid[v] /\ e[t] = x
      BY <1>1, <2>1, <2>4, <2>5, <2>6, <3>1
    <3>3. Total(e, T) = Total(f, T) - f[t] + e[t]
      BY <2>2, <3>2, TotalChange
    <3> QED BY <2>3, <2>6, <3>1, <3>2, <3>3
  <2>7. CASE ~(b = Bank(t) /\ w = v)
    <3>1. \A u \in T : Then[u] = Now[u]
      BY <1>1, <2>1, <2>4, <2>5, <2>7
    <3>2. Total(Then, T) = Total(Now, T)
      BY <2>2, <3>1, TotalAgrees
    <3> QED BY <2>3, <2>7, <3>2
  <2> QED BY <2>6, <2>7
<1> QED BY <1>1, <1>2, <1>3, <1>5, <1>6 DEF CellIs

-----------------------------------------------------------------------------
(* A column holds its entries and the sums over parts of it, and is zero   *)
(* where all its entries are.                                              *)
LEMMA Columns ==
  ASSUME TypeOK, NEW v \in Vouchers
  PROVE  /\ \A T \in SUBSET DOMAIN bt :
              /\ \A u \in T : bt[u].paid[v] <= AllocatedBy(T, v)
              /\ \A R \in SUBSET T : AllocatedBy(R, v) <= AllocatedBy(T, v)
              /\ (\A u \in T : bt[u].paid[v] = 0) => AllocatedBy(T, v) = 0
<1>0. DOMAIN bt \subseteq Rows /\ \A u \in DOMAIN bt : bt[u].paid[v] \in Nat
  BY Cells
<1> SUFFICES ASSUME NEW T \in SUBSET DOMAIN bt
             PROVE  /\ \A u \in T : bt[u].paid[v] <= AllocatedBy(T, v)
                    /\ \A R \in SUBSET T : AllocatedBy(R, v) <= AllocatedBy(T, v)
                    /\ (\A u \in T : bt[u].paid[v] = 0) => AllocatedBy(T, v) = 0
  OBVIOUS
<1>1. PICK f : f = Column(v)
  OBVIOUS
<1>2. \A u \in T : f[u] = bt[u].paid[v] /\ f[u] \in Nat
  BY <1>0, <1>1 DEF Column
<1>3. IsFiniteSet(T)
  BY Cells
<1>4. \A R \in SUBSET T : AllocatedBy(R, v) = Total(f, R)
  BY <1>0, <1>1, AllocatedByIs
<1>5. \A R \in SUBSET T : Total(f, R) \in Nat /\ Total(f, R) <= Total(f, T)
  BY <1>2, <1>3, TotalNat
<1>6. \A u \in T : {u} \in SUBSET T /\ f[u] \in Int
  BY <1>2
<1>7. \A u \in T : Total(f, {u}) = f[u]
  BY <1>6, TotalOne
<1>8. (\A u \in T : f[u] = 0) => Total(f, T) = 0
  BY <1>3, TotalZero
<1>9. T \in SUBSET T
  OBVIOUS
<1>10. \A u \in T : bt[u].paid[v] <= AllocatedBy(T, v)
  BY <1>2, <1>4, <1>5, <1>6, <1>7, <1>9
<1>11. \A R \in SUBSET T : AllocatedBy(R, v) <= AllocatedBy(T, v)
  BY <1>4, <1>5, <1>9
<1> QED BY <1>2, <1>4, <1>8, <1>9, <1>10, <1>11

(* What a voucher moves is a sum over the banks; a payment moves one.      *)
LEMMA Movings ==
  ASSUME NEW v, voucher[v].moves \in [Banks -> Int]
  PROVE  /\ Moved(v) \in Nat
         /\ \A b \in Banks : Size(voucher[v].moves[b]) \in Nat
         /\ \A b \in Banks : (\A c \in Banks : c # b => voucher[v].moves[c] = 0)
                              => Moved(v) = Size(voucher[v].moves[b])
<1>1. PICK f : f = Movements(v)
  OBVIOUS
<1>2. \A b \in Banks : f[b] = Size(voucher[v].moves[b]) /\ f[b] \in Nat
  BY <1>1 DEF Movements, Size
<1>3. IsFiniteSet(Banks)
  BY LinesAssumption
<1>4. Moved(v) = Total(f, Banks)
  BY <1>1, MovedIs
<1>5. Total(f, Banks) \in Nat
  BY <1>2, <1>3, TotalNat
<1>6. ASSUME NEW b \in Banks, \A c \in Banks : c # b => voucher[v].moves[c] = 0
      PROVE  Moved(v) = Size(voucher[v].moves[b])
  <2>1. Total(f, Banks) = Total(f, {b}) + Total(f, Banks \ {b})
    <3>1. {b} \subseteq Banks /\ \A c \in Banks : f[c] \in Int
      BY <1>2
    <3> QED BY <1>3, <3>1, TotalSplit
  <2>2. Total(f, {b}) = f[b]
    <3>1. f[b] \in Int
      BY <1>2
    <3> QED BY <3>1, TotalOne
  <2>3. Total(f, Banks \ {b}) = 0
    <3>1. \A c \in Banks \ {b} : f[c] = 0
      BY <1>2, <1>6 DEF Size
    <3>2. IsFiniteSet(Banks \ {b})
      BY <1>3, FS_Subset
    <3> QED BY <3>1, <3>2, TotalZero
  <2> QED BY <1>2, <1>4, <2>1, <2>2, <2>3
<1> QED BY <1>2, <1>4, <1>5, <1>6

-----------------------------------------------------------------------------
(* What else an allocation needs: lines to do are untouched, and a proposal*)
(* is about a line.                                                        *)
TodoIsFree == \A t \in run.todo : \A v \in Vouchers : bt[t].paid[v] = 0

NoRunNothingToDo == Idle => run.todo = {}

ProposalsHaveLines == \A p \in DOMAIN proposal : proposal[p].row \in DOMAIN bt

TInv == TypeOK /\ TodoIsFree /\ NoRunNothingToDo /\ ProposalsHaveLines

(* A new line: nothing is allocated to it.                                 *)
NewRows(T) ==
  /\ T \in SUBSET (Rows \ DOMAIN bt)
  /\ DOMAIN bt' = DOMAIN bt \cup T
  /\ \A t \in T : bt'[t] \in BtRow /\ \A v \in Vouchers : bt'[t].paid[v] = 0
  /\ \A t \in DOMAIN bt : bt'[t] = bt[t]
  /\ run' = [phase |-> "pairing", todo |-> T, used |-> {}, taken |-> {}]

(* Stores puts rows into the table that nothing is allocated to.           *)
LEMMA StoresNewRows ==
  ASSUME TypeOK, NEW S \in Statements, NEW N \in SUBSET S, Stores(N)
  PROVE  \E T \in SUBSET Rows : NewRows(T)
<1>1. PICK T \in SUBSET (Rows \ DOMAIN bt) : \E row \in Bijection(N, T) :
        /\ bt' = [t \in DOMAIN bt \cup T |->
                   IF t \in T THEN [line |-> CHOOSE l \in N : row[l] = t,
                                    paid |-> [v \in Vouchers |-> 0]]
                   ELSE bt[t]]
        /\ run' = [phase |-> "pairing", todo |-> T, used |-> {}, taken |-> {}]
  BY Zenon DEF Stores, kSubset
<1>2. PICK row \in Bijection(N, T) :
        /\ bt' = [t \in DOMAIN bt \cup T |->
                   IF t \in T THEN [line |-> CHOOSE l \in N : row[l] = t,
                                    paid |-> [v \in Vouchers |-> 0]]
                   ELSE bt[t]]
        /\ run' = [phase |-> "pairing", todo |-> T, used |-> {}, taken |-> {}]
  BY <1>1
<1>3. N \subseteq Lines
  BY LinesAssumption
<1>4. ASSUME NEW t \in T PROVE bt'[t] \in BtRow /\ \A v \in Vouchers : bt'[t].paid[v] = 0
  <2>1. \E l \in N : row[l] = t
    BY DEF Bijection, Surjection
  <2> DEFINE line == CHOOSE l \in N : row[l] = t
  <2>2. line \in Lines
    BY <1>3, <2>1
  <2>3. bt'[t] = [line |-> line, paid |-> [v \in Vouchers |-> 0]]
    BY <1>2
  <2> HIDE DEF line
  <2>4. [v \in Vouchers |-> 0] \in [Vouchers -> Nat]
    OBVIOUS
  <2> QED BY <2>2, <2>3, <2>4 DEF BtRow
<1>5. \A t \in DOMAIN bt : bt'[t] = bt[t]
  BY <1>2
<1>6. DOMAIN bt' = DOMAIN bt \cup T
  BY <1>2
<1> QED BY <1>2, <1>4, <1>5, <1>6 DEF NewRows

(* What a line can take of a voucher that stands open.                     *)
LEMMA ReconcileFits ==
  ASSUME TInv, NEW t \in DOMAIN bt, NEW v \in DOMAIN voucher,
         Open(Bank(t), v) > 0, Unallocated(t) > 0
  PROVE  \E x \in Nat \ {0} :
           /\ x = Min({Open(Bank(t), v), Unallocated(t)})
           /\ x <= Open(Bank(t), v) /\ x <= Unallocated(t)
<1>1. voucher[v].moves \in [Banks -> Int] /\ v \in Vouchers
  BY DEF TInv, TypeOK, VoucherRow
<1>2. Bank(t) \in Banks /\ Unallocated(t) \in Int
  BY Cells DEF TInv
<1>3. Size(voucher[v].moves[Bank(t)]) \in Nat
  BY <1>1, <1>2, Movings
<1>4. AllocatedBy(RowsAt(Bank(t)), v) \in Nat
  BY <1>1, Cells DEF TInv
<1>5. Open(Bank(t), v) \in Int
  BY <1>3, <1>4 DEF Open
<1>6. PICK o, u : o = Open(Bank(t), v) /\ u = Unallocated(t)
  OBVIOUS
<1>7. o \in Int /\ u \in Int /\ o > 0 /\ u > 0
  BY <1>2, <1>5, <1>6
<1>8. Min({o, u}) = IF o <= u THEN o ELSE u
  <2>1. Min({o, u}) = CHOOSE x \in {o, u} : \A y \in {o, u} : x <= y
    BY DEF Min
  <2> QED BY <1>7, <2>1
<1> QED BY <1>6, <1>7, <1>8

(* A candidate is open on the line's own bank.                             *)
LEMMA CandidatesAreOpen ==
  ASSUME TInv, NEW t \in DOMAIN bt, NEW v \in Candidates(t)
  PROVE  Remaining(Bank(t), v) > 0 /\ Open(Bank(t), v) >= Remaining(Bank(t), v)
         /\ v \in Standing /\ v \in DOMAIN voucher /\ v \in Vouchers
         /\ Remaining(Bank(t), v) \in Int /\ Open(Bank(t), v) \in Int
<1>1. v \in Standing /\ v \in DOMAIN voucher /\ v \in Vouchers /\ voucher[v].moves \in [Banks -> Int]
  BY DEF TInv, TypeOK, VoucherRow, Candidates, Standing
<1>2. Bank(t) \in Banks /\ RowsAt(Bank(t)) \in SUBSET DOMAIN bt /\ DOMAIN bt \in SUBSET DOMAIN bt
  BY Cells DEF TInv
<1>3. Size(voucher[v].moves[Bank(t)]) \in Nat
  BY <1>1, <1>2, Movings
<1>4. AllocatedBy(RowsAt(Bank(t)), v) \in Nat /\ AllocatedBy(DOMAIN bt, v) \in Nat
  BY <1>1, <1>2, Cells DEF TInv
<1>5. AllocatedBy(RowsAt(Bank(t)), v) <= AllocatedBy(DOMAIN bt, v)
  BY <1>1, <1>2, Columns DEF TInv
<1>6. Remaining(Bank(t), v) > 0
  BY DEF Candidates
<1> QED BY <1>1, <1>3, <1>4, <1>5, <1>6 DEF Open, Remaining

(* A line of the run has all of its amount open.                           *)
LEMMA TodoHasItsAmount ==
  ASSUME TInv, NEW t \in run.todo
  PROVE  t \in DOMAIN bt /\ Unallocated(t) = Size(Amount(t)) /\ Unallocated(t) > 0
<1>1. t \in DOMAIN bt
  BY DEF TInv, TypeOK
<1>2. \A v \in Vouchers : bt[t].paid[v] = 0
  BY DEF TInv, TodoIsFree
<1>3. Total(bt[t].paid, Vouchers) = 0
  BY <1>2, LinesAssumption, TotalZero
<1>4. Allocated(t) = 0
  BY <1>3, AllocatedIs
<1>5. Size(Amount(t)) \in Nat \ {0}
  BY <1>1, Cells DEF TInv
<1> QED BY <1>1, <1>4, <1>5 DEF Unallocated

-----------------------------------------------------------------------------
(* The types, one handler at a time.                                       *)
LEMMA InitTInv == Init => TInv
  BY LinesAssumption
  DEF Init, TInv, TypeOK, TodoIsFree, NoRunNothingToDo, ProposalsHaveLines, NoRun, Idle, Size

(* The lines and what is booked stay.                                      *)
LEMMA QuietTypes ==
  ASSUME TInv, UNCHANGED <<bt, voucher, outstanding>>,
         \A p \in DOMAIN proposal' :
           p \in Proposals /\ proposal'[p] \in ProposalRow /\ proposal'[p].row \in DOMAIN bt,
         \/ run' = run \/ run' = NoRun
         \/ /\ run.phase # "none"
            /\ run' \in [phase : {"pairing", "lines"}, todo : SUBSET run.todo, used : SUBSET DOMAIN bt,
                taken : SUBSET DOMAIN voucher],
         search' = search \/ search' \in [list : SUBSET DOMAIN voucher, shown : SUBSET DOMAIN bt]
  PROVE  TInv'
<1>1. run' \in [phase : {"none", "pairing", "lines"}, todo : SUBSET DOMAIN bt, used : SUBSET DOMAIN bt,
                taken : SUBSET DOMAIN voucher]
  <2>1. CASE run' = run
    BY <2>1 DEF TInv, TypeOK
  <2>2. CASE run' = NoRun
    BY <2>2 DEF NoRun
  <2>3. CASE run' \in [phase : {"pairing", "lines"}, todo : SUBSET run.todo, used : SUBSET DOMAIN bt,
                taken : SUBSET DOMAIN voucher]
    <3>1. run.todo \subseteq DOMAIN bt
      BY DEF TInv, TypeOK
    <3> QED BY <2>3, <3>1
  <2> QED BY <2>1, <2>2, <2>3
<1>2. run'.todo \subseteq run.todo /\ (run'.phase = "none" => run'.todo = {})
  BY DEF TInv, NoRunNothingToDo, Idle, NoRun
<1>3. search' \in [list : SUBSET DOMAIN voucher, shown : SUBSET DOMAIN bt]
  BY DEF TInv, TypeOK
<1>4. TypeOK'
  BY <1>1, <1>3 DEF TInv, TypeOK
<1>5. TodoIsFree'
  BY <1>2 DEF TInv, TodoIsFree
<1>6. NoRunNothingToDo'
  BY <1>2 DEF NoRunNothingToDo, Idle
<1>7. ProposalsHaveLines'
  BY DEF ProposalsHaveLines
<1> QED BY <1>4, <1>5, <1>6, <1>7 DEF TInv

(* A new proposal for a line.                                              *)
LEMMA ProposalTypes ==
  ASSUME TInv, NEW p \in Proposals, NEW t \in DOMAIN bt, NEW d \in DOMAIN bt \cup {None},
         proposal' = Put(proposal, p, [row |-> t, pair |-> d, status |-> "proposed"])
  PROVE  \A q \in DOMAIN proposal' :
           q \in Proposals /\ proposal'[q] \in ProposalRow /\ proposal'[q].row \in DOMAIN bt
<1>1. PICK row : row = [row |-> t, pair |-> d, status |-> "proposed"]
  OBVIOUS
<1>2. row \in ProposalRow /\ row.row = t
  BY <1>1, Cells DEF TInv, ProposalRow
<1>3. \A q \in DOMAIN proposal' : \/ q = p /\ proposal'[q] = row
                                  \/ q \in DOMAIN proposal /\ proposal'[q] = proposal[q]
  BY <1>1 DEF Put
<1>4. \A q \in DOMAIN proposal :
        q \in Proposals /\ proposal[q] \in ProposalRow /\ proposal[q].row \in DOMAIN bt
  BY DEF TInv, TypeOK, ProposalsHaveLines
<1> SUFFICES ASSUME NEW q \in DOMAIN proposal'
             PROVE  q \in Proposals /\ proposal'[q] \in ProposalRow /\ proposal'[q].row \in DOMAIN bt
  OBVIOUS
<1>5. CASE q = p /\ proposal'[q] = row
  BY <1>2, <1>5
<1>6. CASE q \in DOMAIN proposal /\ proposal'[q] = proposal[q]
  BY <1>4, <1>6
<1> QED BY <1>3, <1>5, <1>6

(* A decided proposal is about the line it was about.                      *)
LEMMA DecisionTypes ==
  ASSUME TInv, NEW p \in DOMAIN proposal, NEW s \in {"posted", "rejected"},
         proposal' = [proposal EXCEPT ![p].status = s]
  PROVE  \A q \in DOMAIN proposal' :
           q \in Proposals /\ proposal'[q] \in ProposalRow /\ proposal'[q].row \in DOMAIN bt
<1>1. \A q \in DOMAIN proposal : q \in Proposals /\ proposal[q] \in ProposalRow
                                 /\ proposal[q].row \in DOMAIN bt
  BY DEF TInv, TypeOK, ProposalsHaveLines
<1> QED BY <1>1 DEF ProposalRow

(* Something is booked, or an allocation is written.                       *)
LEMMA BookTypes ==
  ASSUME TInv, Idle, UNCHANGED run,
         DOMAIN bt' = DOMAIN bt, \A u \in DOMAIN bt : bt'[u] \in BtRow,
         DOMAIN voucher \subseteq DOMAIN voucher',
         \A v \in DOMAIN voucher' : v \in Vouchers /\ voucher'[v] \in VoucherRow,
         outstanding' \in [Invoices -> Nat],
         \A p \in DOMAIN proposal' :
           p \in Proposals /\ proposal'[p] \in ProposalRow /\ proposal'[p].row \in DOMAIN bt,
         search' = search \/ search' = [search EXCEPT !.list = {}]
  PROVE  TInv'
<1>1. TypeOK'
  BY DEF TInv, TypeOK
<1>2. TodoIsFree' /\ NoRunNothingToDo'
  BY DEF TInv, TodoIsFree, NoRunNothingToDo, Idle
<1>3. ProposalsHaveLines'
  BY DEF ProposalsHaveLines
<1> QED BY <1>1, <1>2, <1>3 DEF TInv

(* One more voucher in the table.                                          *)
LEMMA NewVoucherTypes ==
  ASSUME TInv, NEW v \in Vouchers, NEW row \in VoucherRow, voucher' = Put(voucher, v, row)
  PROVE  /\ DOMAIN voucher' = DOMAIN voucher \cup {v}
         /\ \A w \in DOMAIN voucher' : w \in Vouchers /\ voucher'[w] \in VoucherRow
         /\ voucher'[v] = row
         /\ \A w \in DOMAIN voucher : w # v => voucher'[w] = voucher[w]
<1>1. \A w \in DOMAIN voucher' : \/ w = v /\ voucher'[w] = row
                                 \/ w # v /\ w \in DOMAIN voucher /\ voucher'[w] = voucher[w]
  BY DEF Put
<1>2. DOMAIN voucher' = DOMAIN voucher \cup {v}
  BY DEF Put
<1>3. \A w \in DOMAIN voucher : w \in Vouchers /\ voucher[w] \in VoucherRow
  BY DEF TInv, TypeOK
<1>4. \A w \in DOMAIN voucher' : w \in Vouchers /\ voucher'[w] \in VoucherRow
  <2> SUFFICES ASSUME NEW w \in DOMAIN voucher' PROVE w \in Vouchers /\ voucher'[w] \in VoucherRow
    OBVIOUS
  <2>1. CASE w = v /\ voucher'[w] = row
    BY <2>1
  <2>2. CASE w \in DOMAIN voucher /\ voucher'[w] = voucher[w]
    BY <1>3, <2>2
  <2> QED BY <1>1, <2>1, <2>2
<1>5. voucher'[v] = row /\ \A w \in DOMAIN voucher : w # v => voucher'[w] = voucher[w]
  BY <1>1, <1>2
<1> QED BY <1>2, <1>4, <1>5

(* The steps of a matching run.                                            *)
LEMMA RunTypes == ASSUME TInv, RunStep PROVE TInv'
<1>0. /\ \A p \in DOMAIN proposal : p \in Proposals /\ proposal[p] \in ProposalRow
                                   /\ proposal[p].row \in DOMAIN bt
      /\ run \in [phase : {"none", "pairing", "lines"}, todo : SUBSET DOMAIN bt, used : SUBSET DOMAIN bt,
                taken : SUBSET DOMAIN voucher]
  BY DEF TInv, TypeOK, ProposalsHaveLines
<1>1. ASSUME NEW w \in DOMAIN bt, NEW d \in DOMAIN bt, Paired(w, d), run.phase = "pairing"
      PROVE  run' \in [phase : {"pairing", "lines"}, todo : SUBSET run.todo, used : SUBSET DOMAIN bt,
                taken : SUBSET DOMAIN voucher]
  BY <1>0, <1>1 DEF Paired
<1>2. ASSUME NEW t \in DOMAIN bt, NEW taken \in SUBSET DOMAIN voucher, Done(t, taken), run.phase = "lines"
      PROVE  run' \in [phase : {"pairing", "lines"}, todo : SUBSET run.todo, used : SUBSET DOMAIN bt,
                taken : SUBSET DOMAIN voucher]
  BY <1>0, <1>2 DEF Done
<1>3. ASSUME NEW w \in DOMAIN bt, NEW d \in DOMAIN bt, RunPassesPair(w, d) PROVE TInv'
  BY <1>0, <1>1, <1>3, QuietTypes DEF RunPassesPair
<1>4. ASSUME NEW w \in DOMAIN bt, NEW d \in DOMAIN bt, NEW p \in Proposals,
             RunProposesTransfer(w, d, p)
      PROVE  TInv'
  <2>1. \A q \in DOMAIN proposal' :
          q \in Proposals /\ proposal'[q] \in ProposalRow /\ proposal'[q].row \in DOMAIN bt
    BY <1>4, ProposalTypes DEF RunProposesTransfer
  <2> QED BY <2>1, <1>1, <1>4, QuietTypes DEF RunProposesTransfer
<1>5. CASE RunGoesToLines
  <2>1. run' \in [phase : {"pairing", "lines"}, todo : SUBSET run.todo, used : SUBSET DOMAIN bt,
                taken : SUBSET DOMAIN voucher]
    BY <1>0, <1>5 DEF RunGoesToLines
  <2> QED BY <2>1, <1>0, <1>5, QuietTypes DEF RunGoesToLines
<1>6. ASSUME NEW t \in DOMAIN bt, NEW p \in Proposals, RunProposesFee(t, p) PROVE TInv'
  <2>1. \A q \in DOMAIN proposal' :
          q \in Proposals /\ proposal'[q] \in ProposalRow /\ proposal'[q].row \in DOMAIN bt
    BY <1>6, ProposalTypes DEF RunProposesFee
  <2> QED BY <2>1, <1>2, <1>6, QuietTypes DEF RunProposesFee, OnLine
<1>7. ASSUME NEW t \in DOMAIN bt, RunLeaves(t) PROVE TInv'
  BY <1>0, <1>2, <1>7, QuietTypes DEF RunLeaves, OnLine
<1>8. CASE RunEnds \/ RunBreaks
  BY <1>0, <1>8, QuietTypes DEF RunEnds, RunBreaks
<1>9. ASSUME NEW t \in DOMAIN bt, NEW v \in Vouchers, v \in DOMAIN voucher, RunMatches(t, v) PROVE TInv'
  <2>1. t \in run.todo /\ run.phase = "lines" /\ v \in Candidates(t)
    BY <1>9 DEF RunMatches, OnLine, Eligible, Exact
  <2>2. Open(Bank(t), v) > 0 /\ Unallocated(t) > 0
    BY <2>1, CandidatesAreOpen, TodoHasItsAmount
  <2>3. PICK x \in Nat \ {0} : x = Min({Open(Bank(t), v), Unallocated(t)})
    BY <1>9, <2>2, ReconcileFits
  <2>4. CellIs(t, v, x)
    <3>1. bt' = [bt EXCEPT ![t].paid[v] = x]
      BY <1>9, <2>3 DEF RunMatches, Reconcile
    <3> QED BY <3>1, CellChanges DEF TInv
  <2>5. /\ DOMAIN bt' = DOMAIN bt /\ \A u \in DOMAIN bt : bt'[u] \in BtRow
        /\ \A u \in DOMAIN bt : u # t => \A w \in Vouchers : bt'[u].paid[w] = bt[u].paid[w]
    BY <2>4 DEF CellIs
  <2>6. run' \in [phase : {"pairing", "lines"}, todo : SUBSET (run.todo \ {t}), used : SUBSET DOMAIN bt,
                taken : SUBSET DOMAIN voucher]
    BY <1>0, <1>9, <2>1 DEF RunMatches, Done
  <2>7. UNCHANGED <<voucher, outstanding, proposal, search>>
    BY <1>9 DEF RunMatches
  <2>8. TypeOK'
    BY <1>0, <2>5, <2>6, <2>7 DEF TInv, TypeOK
  <2>9. TodoIsFree'
    BY <1>0, <2>5, <2>6 DEF TInv, TodoIsFree
  <2>10. NoRunNothingToDo' /\ ProposalsHaveLines'
    BY <2>5, <2>6, <2>7 DEF NoRunNothingToDo, ProposalsHaveLines, Idle, TInv
  <2> QED BY <2>8, <2>9, <2>10 DEF TInv
<1> QED BY <1>3, <1>4, <1>5, <1>6, <1>7, <1>8, <1>9 DEF RunStep

(* What settle writes.                                                     *)
LEMMA SettleWrites ==
  ASSUME TInv, NEW t \in Rows, NEW i \in Invoices, NEW v \in Vouchers, Settle(t, i, v)
  PROVE  /\ t \in DOMAIN bt /\ v \notin DOMAIN voucher
         /\ Unallocated(t) \in Nat \ {0} /\ Unallocated(t) <= outstanding[i]
         /\ outstanding[i] \in Nat
         /\ outstanding' = [outstanding EXCEPT ![i] = outstanding[i] - Unallocated(t)]
         /\ PaymentOf(t, i) \in VoucherRow
         /\ voucher' = Put(voucher, v, PaymentOf(t, i))
         /\ CellIs(t, v, Unallocated(t))
<1>1. t \in DOMAIN bt /\ 0 < Unallocated(t) /\ Unallocated(t) <= outstanding[i] /\ v \notin DOMAIN voucher
  BY DEF Settle, MaySettle
<1>2. Unallocated(t) \in Int
  BY <1>1, Cells DEF TInv
<1>3. Unallocated(t) \in Nat \ {0}
  BY <1>1, <1>2
<1>4. outstanding' = [outstanding EXCEPT ![i] = outstanding[i] - Unallocated(t)]
  BY DEF Settle
<1>5. voucher' = Put(voucher, v, PaymentOf(t, i))
  BY DEF Settle
<1>6. PaymentOf(t, i) \in VoucherRow
  <2>1. PICK n : n = Unallocated(t)
    OBVIOUS
  <2>2. \A b \in Banks :
          (IF b # Bank(t) THEN 0 ELSE IF Amount(t) < 0 THEN -n ELSE n) \in Int
    BY <1>2, <2>1
  <2>3. PICK m : m = [b \in Banks |-> IF b # Bank(t) THEN 0 ELSE IF Amount(t) < 0 THEN -n ELSE n]
    OBVIOUS
  <2>4. m \in [Banks -> Int]
    BY <2>2, <2>3
  <2>5. PaymentOf(t, i) = [moves |-> m, pays |-> i, proposal |-> None, docstatus |-> 1]
    BY <2>1, <2>3 DEF PaymentOf
  <2> QED BY <2>4, <2>5 DEF VoucherRow
<1>7. CellIs(t, v, Unallocated(t))
  <2>1. PICK n \in Nat : n = Unallocated(t)
    BY <1>3
  <2>2. bt' = [bt EXCEPT ![t].paid[v] = n]
    BY <2>1 DEF Settle
  <2>3. CellIs(t, v, n)
    BY <1>1, <2>2, CellChanges DEF TInv
  <2> QED BY <2>1, <2>3
<1>8. outstanding[i] \in Nat
  BY DEF TInv, TypeOK
<1> QED BY <1>1, <1>3, <1>4, <1>5, <1>6, <1>7, <1>8

(* A match writes what fits.                                               *)
LEMMA MatchWrites ==
  ASSUME TInv, NEW t \in Rows, NEW v \in Vouchers, Match(t, v)
  PROVE  /\ t \in DOMAIN bt /\ v \in Standing /\ bt[t].paid[v] = 0
         /\ Open(Bank(t), v) > 0
         /\ \E x \in Nat \ {0} : /\ x <= Open(Bank(t), v) /\ x <= Unallocated(t)
                               /\ CellIs(t, v, x)
<1>1. t \in DOMAIN bt
  BY DEF TInv, TypeOK, Match
<1>2. v \in Standing /\ v \in DOMAIN voucher /\ bt[t].paid[v] = 0
      /\ Open(Bank(t), v) > 0 /\ Unallocated(t) > 0
  BY DEF Match, Standing
<1>3. PICK x \in Nat \ {0} : /\ x = Min({Open(Bank(t), v), Unallocated(t)})
                           /\ x <= Open(Bank(t), v) /\ x <= Unallocated(t)
  BY <1>1, <1>2, ReconcileFits
<1>4. bt' = [bt EXCEPT ![t].paid[v] = x]
  BY <1>3 DEF Match, Reconcile
<1>5. CellIs(t, v, x)
  BY <1>1, <1>4, CellChanges DEF TInv
<1> QED BY <1>1, <1>2, <1>3, <1>5

(* The run matches a new line with a voucher of about its amount.          *)
LEMMA RunMatchWrites ==
  ASSUME TInv, NEW t \in DOMAIN bt, NEW v \in Vouchers, RunMatches(t, v)
  PROVE  /\ t \in run.todo /\ run.phase = "lines"
         /\ v \in Standing /\ bt[t].paid[v] = 0
         /\ Open(Bank(t), v) > 0
         /\ \E x \in Nat \ {0} : /\ x <= Open(Bank(t), v) /\ x <= Unallocated(t)
                               /\ CellIs(t, v, x)
<1>1. t \in run.todo /\ run.phase = "lines" /\ v \in Candidates(t)
  BY DEF RunMatches, OnLine, Eligible, Exact
<1>2. Open(Bank(t), v) > 0 /\ Unallocated(t) > 0 /\ v \in Standing /\ v \in DOMAIN voucher
  <2>1. /\ Remaining(Bank(t), v) > 0 /\ Open(Bank(t), v) >= Remaining(Bank(t), v)
        /\ v \in Standing /\ v \in DOMAIN voucher
        /\ Remaining(Bank(t), v) \in Int /\ Open(Bank(t), v) \in Int
    BY <1>1, CandidatesAreOpen
  <2>2. Unallocated(t) > 0
    BY <1>1, TodoHasItsAmount
  <2> QED BY <2>1, <2>2
<1>3. PICK x \in Nat \ {0} : /\ x = Min({Open(Bank(t), v), Unallocated(t)})
                           /\ x <= Open(Bank(t), v) /\ x <= Unallocated(t)
  BY <1>2, ReconcileFits
<1>4. bt' = [bt EXCEPT ![t].paid[v] = x]
  BY <1>3 DEF RunMatches, Reconcile
<1>5. CellIs(t, v, x)
  BY <1>4, CellChanges DEF TInv
<1>6. bt[t].paid[v] = 0
  BY <1>1 DEF TInv, TodoIsFree
<1> QED BY <1>1, <1>2, <1>3, <1>5, <1>6

(* A written allocation leaves rows.                                       *)
LEMMA CellTypes ==
  ASSUME NEW t, NEW v, NEW x, CellIs(t, v, x)
  PROVE  DOMAIN bt' = DOMAIN bt /\ \A u \in DOMAIN bt : bt'[u] \in BtRow
  BY DEF CellIs

(* A posted proposal moves the line's whole amount.                        *)
LEMMA ApprovalWrites ==
  ASSUME TInv, NEW p \in DOMAIN proposal, NEW v \in Vouchers, ApproveProposal(p, v)
  PROVE  /\ v \notin DOMAIN voucher
         /\ \E row \in VoucherRow : /\ voucher' = Put(voucher, v, row)
                                  /\ row.docstatus = 1 /\ row.pays = None
<1> DEFINE t == proposal[p].row
           d == proposal[p].pair
           m == [b \in Banks |-> IF b = Bank(t) THEN Amount(t)
                                 ELSE IF d # None /\ b = Bank(d) THEN -Amount(t) ELSE 0]
           row == [moves |-> m, pays |-> None, proposal |-> p, docstatus |-> 1]
<1>1. t \in DOMAIN bt /\ p \in Proposals
  BY DEF TInv, TypeOK, ProposalsHaveLines
<1>2. Amount(t) \in Int
  BY <1>1, Cells DEF TInv
<1>3. m \in [Banks -> Int]
  BY <1>2
<1>4. voucher' = Put(voucher, v, row) /\ v \notin DOMAIN voucher
  BY DEF ApproveProposal
<1> HIDE DEF m
<1>5. row \in VoucherRow /\ row.docstatus = 1 /\ row.pays = None
  BY <1>1, <1>3 DEF VoucherRow
<1> QED BY <1>4, <1>5

(* A voucher posted elsewhere pays none of the invoices.                   *)
LEMMA PostingWrites ==
  ASSUME TInv, NEW v \in Vouchers, NEW moves \in DeskMoves, PostVoucher(v, moves)
  PROVE  /\ v \notin DOMAIN voucher
         /\ \E row \in VoucherRow : /\ voucher' = Put(voucher, v, row)
                                  /\ row.docstatus = 1 /\ row.pays = None
<1> DEFINE row == [moves |-> moves, pays |-> None, proposal |-> None, docstatus |-> 1]
<1>1. moves \in [Banks -> Int]
  BY LinesAssumption
<1>2. row \in VoucherRow /\ row.docstatus = 1 /\ row.pays = None
  BY <1>1 DEF VoucherRow
<1>3. voucher' = Put(voucher, v, row) /\ v \notin DOMAIN voucher
  BY DEF PostVoucher
<1> QED BY <1>2, <1>3

(* What a cancellation writes.                                             *)
LEMMA CancelWrites ==
  ASSUME TInv, NEW v \in DOMAIN voucher, CancelPayment(v)
  PROVE  /\ v \in Vouchers /\ v \in Standing /\ voucher[v].pays \in Invoices
         /\ voucher[v].moves \in [Banks -> Int]
         /\ Moved(v) \in Nat
         /\ DOMAIN voucher' = DOMAIN voucher
         /\ \A w \in DOMAIN voucher :
              /\ voucher'[w] \in VoucherRow
              /\ voucher'[w].moves = voucher[w].moves /\ voucher'[w].pays = voucher[w].pays
              /\ voucher'[w].docstatus = IF w = v THEN 2 ELSE voucher[w].docstatus
         /\ outstanding' = [outstanding EXCEPT ![voucher[v].pays] = outstanding[voucher[v].pays] + Moved(v)]
         /\ DOMAIN bt' = DOMAIN bt
         /\ \A u \in DOMAIN bt :
              /\ bt'[u] \in BtRow /\ bt'[u].line = bt[u].line
              /\ \A w \in Vouchers : bt'[u].paid[w] = IF w = v THEN 0 ELSE bt[u].paid[w]
<1>1. \A w \in DOMAIN voucher : w \in Vouchers /\ voucher[w] \in VoucherRow
  BY DEF TInv, TypeOK
<1>2. voucher[v].docstatus = 1 /\ voucher[v].pays # None
  BY DEF CancelPayment
<1>3. /\ v \in Vouchers /\ v \in Standing /\ voucher[v].pays \in Invoices
      /\ voucher[v].moves \in [Banks -> Int]
  BY <1>1, <1>2 DEF VoucherRow, Standing
<1>4. Moved(v) \in Nat
  BY <1>3, Movings
<1>5. voucher' = [voucher EXCEPT ![v] = [voucher[v] EXCEPT !.docstatus = 2]]
  BY DEF CancelPayment
<1>6. \A w \in DOMAIN voucher :
        /\ voucher'[w] \in VoucherRow
        /\ voucher'[w].moves = voucher[w].moves /\ voucher'[w].pays = voucher[w].pays
        /\ voucher'[w].docstatus = IF w = v THEN 2 ELSE voucher[w].docstatus
  BY <1>1, <1>5 DEF VoucherRow
<1>7. outstanding' = [outstanding EXCEPT ![voucher[v].pays] = outstanding[voucher[v].pays] + Moved(v)]
  BY DEF CancelPayment
<1>8. bt' = [t \in DOMAIN bt |-> [bt[t] EXCEPT !.paid = [bt[t].paid EXCEPT ![v] = 0]]]
  BY DEF CancelPayment, Release
<1>9. \A u \in DOMAIN bt : bt[u] \in BtRow
  BY DEF TInv, TypeOK
<1>10. \A u \in DOMAIN bt :
         /\ bt'[u] \in BtRow /\ bt'[u].line = bt[u].line
         /\ \A w \in Vouchers : bt'[u].paid[w] = IF w = v THEN 0 ELSE bt[u].paid[w]
  <2> SUFFICES ASSUME NEW u \in DOMAIN bt
               PROVE  /\ bt'[u] \in BtRow /\ bt'[u].line = bt[u].line
                      /\ \A w \in Vouchers : bt'[u].paid[w] = IF w = v THEN 0 ELSE bt[u].paid[w]
    OBVIOUS
  <2>1. PICK row : row = bt[u]
    OBVIOUS
  <2>2. row \in BtRow /\ bt'[u] = [row EXCEPT !.paid = [row.paid EXCEPT ![v] = 0]]
    BY <1>8, <1>9, <2>1
  <2> QED BY <2>1, <2>2 DEF BtRow
<1>11. DOMAIN bt' = DOMAIN bt /\ DOMAIN voucher' = DOMAIN voucher
  BY <1>5, <1>8
<1> QED BY <1>2, <1>3, <1>4, <1>6, <1>7, <1>10, <1>11

(* The taps.                                                               *)
LEMMA TapTypes == ASSUME TInv, Tap PROVE TInv'
<1>0. /\ \A p \in DOMAIN proposal : p \in Proposals /\ proposal[p] \in ProposalRow
                                   /\ proposal[p].row \in DOMAIN bt
      /\ \A v \in DOMAIN voucher : v \in Vouchers /\ voucher[v] \in VoucherRow
      /\ \A t \in DOMAIN bt : bt[t] \in BtRow
      /\ outstanding \in [Invoices -> Nat]
      /\ search \in [list : SUBSET DOMAIN voucher, shown : SUBSET DOMAIN bt]
  BY DEF TInv, TypeOK, ProposalsHaveLines
<1>1. CASE Forget
  <2>1. search' \in [list : SUBSET DOMAIN voucher, shown : SUBSET DOMAIN bt]
    BY <1>0, <1>1 DEF Forget, NoList
  <2> QED BY <2>1, <1>0, <1>1, QuietTypes DEF Forget
<1>2. ASSUME NEW t \in Rows, Search(t) PROVE TInv'
  <2>1. search' \in [list : SUBSET DOMAIN voucher, shown : SUBSET DOMAIN bt]
    BY <1>0, <1>2 DEF Search, Candidates, Standing
  <2> QED BY <2>1, <1>0, <1>2, QuietTypes DEF Search
<1>3. ASSUME NEW t \in Rows, NEW v \in Vouchers, Match(t, v) PROVE TInv'
  <2>1. DOMAIN bt' = DOMAIN bt /\ \A u \in DOMAIN bt : bt'[u] \in BtRow
    BY <1>3, MatchWrites, CellTypes
  <2> QED BY <2>1, <1>0, <1>3, BookTypes DEF Match, NoList
<1>4. ASSUME NEW t \in Rows, NEW v \in Vouchers, NEW i \in Invoices, Settle(t, i, v) PROVE TInv'
  <2>1. DOMAIN bt' = DOMAIN bt /\ \A u \in DOMAIN bt : bt'[u] \in BtRow
    BY <1>4, SettleWrites, CellTypes
  <2>2. /\ DOMAIN voucher' = DOMAIN voucher \cup {v}
        /\ \A w \in DOMAIN voucher' : w \in Vouchers /\ voucher'[w] \in VoucherRow
    BY <1>4, SettleWrites, NewVoucherTypes
  <2>3. outstanding' \in [Invoices -> Nat]
    <3>1. /\ outstanding' = [outstanding EXCEPT ![i] = outstanding[i] - Unallocated(t)]
          /\ Unallocated(t) \in Nat /\ Unallocated(t) <= outstanding[i] /\ outstanding[i] \in Nat
      BY <1>4, SettleWrites
    <3>2. outstanding[i] - Unallocated(t) \in Nat
      BY <3>1
    <3> QED BY <1>0, <3>1, <3>2
  <2>4. Idle /\ UNCHANGED <<proposal, run>> /\ search' = [search EXCEPT !.list = {}]
    BY <1>4 DEF Settle, MaySettle, NoList
  <2>5. /\ DOMAIN voucher \subseteq DOMAIN voucher'
        /\ \A p \in DOMAIN proposal' : p \in Proposals /\ proposal'[p] \in ProposalRow
                                      /\ proposal'[p].row \in DOMAIN bt
    BY <1>0, <2>2, <2>4
  <2> QED BY <2>1, <2>2, <2>3, <2>4, <2>5, BookTypes
<1>5. ASSUME NEW t \in Rows, NEW p \in Proposals, ProposeExpense(t, p) PROVE TInv'
  <2>1. \A q \in DOMAIN proposal' :
          q \in Proposals /\ proposal'[q] \in ProposalRow /\ proposal'[q].row \in DOMAIN bt
    BY <1>5, ProposalTypes DEF ProposeExpense
  <2> QED BY <2>1, <1>5, QuietTypes DEF ProposeExpense
<1>6. ASSUME NEW p \in DOMAIN proposal, RejectProposal(p) PROVE TInv'
  <2>1. \A q \in DOMAIN proposal' :
          q \in Proposals /\ proposal'[q] \in ProposalRow /\ proposal'[q].row \in DOMAIN bt
    BY <1>6, DecisionTypes DEF RejectProposal
  <2> QED BY <2>1, <1>6, QuietTypes DEF RejectProposal
<1>7. ASSUME NEW p \in DOMAIN proposal, NEW v \in Vouchers, ApproveProposal(p, v) PROVE TInv'
  <2>1. \A q \in DOMAIN proposal' :
          q \in Proposals /\ proposal'[q] \in ProposalRow /\ proposal'[q].row \in DOMAIN bt
    BY <1>7, DecisionTypes DEF ApproveProposal
  <2>2. /\ DOMAIN voucher' = DOMAIN voucher \cup {v}
        /\ \A w \in DOMAIN voucher' : w \in Vouchers /\ voucher'[w] \in VoucherRow
    BY <1>7, ApprovalWrites, NewVoucherTypes
  <2>3. Idle /\ UNCHANGED <<bt, outstanding, run, search>>
    BY <1>7 DEF ApproveProposal
  <2> QED BY <1>0, <2>1, <2>2, <2>3, BookTypes
<1> QED BY <1>1, <1>2, <1>3, <1>4, <1>5, <1>6, <1>7 DEF Tap

(* What happens elsewhere.                                                 *)
LEMMA DeskTypes == ASSUME TInv, Desk PROVE TInv'
<1>0. /\ \A p \in DOMAIN proposal : p \in Proposals /\ proposal[p] \in ProposalRow
                                   /\ proposal[p].row \in DOMAIN bt
      /\ \A v \in DOMAIN voucher : v \in Vouchers /\ voucher[v] \in VoucherRow
      /\ \A t \in DOMAIN bt : bt[t] \in BtRow
      /\ outstanding \in [Invoices -> Nat]
  BY DEF TInv, TypeOK, ProposalsHaveLines
<1>1. ASSUME NEW v \in Vouchers, NEW moves \in DeskMoves, PostVoucher(v, moves) PROVE TInv'
  <2>1. /\ DOMAIN voucher' = DOMAIN voucher \cup {v}
        /\ \A w \in DOMAIN voucher' : w \in Vouchers /\ voucher'[w] \in VoucherRow
    BY <1>1, PostingWrites, NewVoucherTypes
  <2>2. Idle /\ UNCHANGED <<bt, outstanding, proposal, run, search>>
    BY <1>1 DEF PostVoucher
  <2> QED BY <1>0, <2>1, <2>2, BookTypes
<1>2. ASSUME NEW v \in DOMAIN voucher, CancelPayment(v) PROVE TInv'
  <2>1. /\ DOMAIN bt' = DOMAIN bt /\ \A u \in DOMAIN bt : bt'[u] \in BtRow
        /\ DOMAIN voucher' = DOMAIN voucher /\ \A w \in DOMAIN voucher : voucher'[w] \in VoucherRow
        /\ outstanding' = [outstanding EXCEPT ![voucher[v].pays] = outstanding[voucher[v].pays] + Moved(v)]
        /\ voucher[v].pays \in Invoices /\ Moved(v) \in Nat
    BY <1>2, CancelWrites
  <2>2. Idle /\ UNCHANGED <<proposal, run, search>>
    BY <1>2 DEF CancelPayment
  <2>3. outstanding' \in [Invoices -> Nat]
    <3>1. outstanding[voucher[v].pays] + Moved(v) \in Nat
      BY <1>0, <2>1
    <3> QED BY <1>0, <2>1, <3>1
  <2> QED BY <1>0, <2>1, <2>2, <2>3, BookTypes
<1> QED BY <1>1, <1>2 DEF Desk

(* An import.                                                              *)
LEMMA ImportTypes == ASSUME TInv, NEW S \in Statements, Import(S) PROVE TInv'
<1>0. /\ \A p \in DOMAIN proposal : p \in Proposals /\ proposal[p] \in ProposalRow
                                   /\ proposal[p].row \in DOMAIN bt
      /\ \A t \in DOMAIN bt : bt[t] \in BtRow
  BY DEF TInv, TypeOK, ProposalsHaveLines
<1>1. PICK N \in NewLines(S) : Stores(N) \/ UNCHANGED <<bt, run>>
  BY DEF Import
<1>2. N \in SUBSET S /\ UNCHANGED <<voucher, outstanding, proposal, search>>
  BY DEF Import, NewLines
<1>3. CASE UNCHANGED <<bt, run>>
  BY <1>0, <1>2, <1>3, QuietTypes
<1>4. CASE Stores(N)
  <2>1. PICK T \in SUBSET Rows : NewRows(T)
    BY <1>2, <1>4, StoresNewRows DEF TInv
  <2>2. DOMAIN bt' \subseteq Rows /\ \A t \in DOMAIN bt' : bt'[t] \in BtRow
    <3>1. DOMAIN bt \subseteq Rows
      BY Cells DEF TInv
    <3> QED BY <1>0, <2>1, <3>1 DEF NewRows
  <2>3. /\ run' \in [phase : {"none", "pairing", "lines"}, todo : SUBSET DOMAIN bt',
                     used : SUBSET DOMAIN bt', taken : SUBSET DOMAIN voucher']
        /\ \A t \in run'.todo : \A v \in Vouchers : bt'[t].paid[v] = 0
        /\ run'.phase = "pairing"
    BY <2>1 DEF NewRows
  <2>4. DOMAIN bt \subseteq DOMAIN bt'
    BY <2>1 DEF NewRows
  <2>5. search \in [list : SUBSET DOMAIN voucher, shown : SUBSET DOMAIN bt']
    BY <2>4 DEF TInv, TypeOK
  <2>6. TypeOK'
    BY <1>2, <2>2, <2>3, <2>5 DEF TInv, TypeOK
  <2>7. TodoIsFree' /\ NoRunNothingToDo' /\ ProposalsHaveLines'
    BY <1>0, <1>2, <2>3, <2>4 DEF TodoIsFree, NoRunNothingToDo, ProposalsHaveLines, Idle
  <2> QED BY <2>6, <2>7 DEF TInv
<1> QED BY <1>1, <1>3, <1>4

(* Every step keeps the types.                                             *)
LEMMA StepTInv == TInv /\ [Next]_vars => TInv'
<1> SUFFICES ASSUME TInv, [Next]_vars PROVE TInv'
  OBVIOUS
<1>1. CASE UNCHANGED vars
  BY <1>1 DEF vars, TInv, TypeOK, TodoIsFree, NoRunNothingToDo, ProposalsHaveLines, Idle
<1> QED BY <1>1, ImportTypes, RunTypes, TapTypes, DeskTypes DEF Next

-----------------------------------------------------------------------------
(* The sums.                                                               *)
SumsFit == LinesFit /\ OnlyStanding /\ VouchersFit /\ PaymentsSettle /\ InvoicesAddUp

(* Nothing is allocated or paid at first.                                  *)
LEMMA InitFits == Init => SumsFit
<1> SUFFICES ASSUME Init PROVE SumsFit
  OBVIOUS
<1>1. DOMAIN bt = {} /\ DOMAIN voucher = {} /\ Standing = {}
      /\ outstanding = [i \in Invoices |-> Size(Due[i])]
  BY DEF Init, Standing
<1>2. LinesFit /\ OnlyStanding /\ VouchersFit /\ PaymentsSettle
  BY <1>1 DEF LinesFit, OnlyStanding, VouchersFit, PaymentsSettle
<1>3. ASSUME NEW i \in Invoices PROVE outstanding[i] = Size(Due[i]) - PaidOn(i)
  <2>1. PaymentsOf(i) = {}
    BY <1>1 DEF PaymentsOf
  <2>2. PaidOn(i) = 0
    BY <1>1, <2>1, PaidOnIs, TotalEmpty
  <2>3. Size(Due[i]) \in Int
    BY LinesAssumption DEF Size
  <2> QED BY <1>1, <2>2, <2>3
<1> QED BY <1>2, <1>3 DEF SumsFit, InvoicesAddUp

(* A voucher of the same movements moves as much.                          *)
LEMMA MovedStays ==
  ASSUME NEW w, voucher'[w].moves = voucher[w].moves
  PROVE  Moved(w)' = Moved(w)
<1>1. Moved(w) = Total(Movements(w), Banks) /\ Moved(w)' = Total(Movements(w)', Banks)
  BY MovedIs, SumsLater
<1>2. Movements(w)' = Movements(w)
  BY DEF Movements
<1> QED BY <1>1, <1>2

(* Where the payments of an invoice stay, what is paid on it does.         *)
LEMMA PaidOnStays ==
  ASSUME TInv, TInv', NEW i, PaymentsOf(i)' = PaymentsOf(i),
         \A w \in PaymentsOf(i) : voucher'[w].moves = voucher[w].moves
  PROVE  PaidOn(i)' = PaidOn(i)
<1>1. DOMAIN voucher \subseteq Vouchers /\ DOMAIN voucher' \subseteq Vouchers
  BY DEF TInv, TypeOK
<1>2. PICK T : T = PaymentsOf(i)
  OBVIOUS
<1>3. PaidOn(i) = Total(AllMoves, T)
  BY <1>1, <1>2, PaidOnIs
<1>4. PaidOn(i)' = Total(AllMoves', T)
  BY <1>1, <1>2, SumsLater
<1>5. T \subseteq DOMAIN voucher /\ IsFiniteSet(T)
  <2>1. T \subseteq DOMAIN voucher
    BY <1>2 DEF PaymentsOf, Standing
  <2>2. IsFiniteSet(Vouchers) /\ T \subseteq Vouchers
    BY <1>1, <2>1, LinesAssumption
  <2> QED BY <2>1, <2>2, FS_Subset
<1>6. PICK f, e : f = AllMoves /\ e = AllMoves'
  OBVIOUS
<1>7. \A w \in T : e[w] = f[w]
  <2> SUFFICES ASSUME NEW w \in T PROVE e[w] = f[w]
    OBVIOUS
  <2>1. Moved(w)' = Moved(w)
    BY <1>2, MovedStays
  <2>2. f[w] = Moved(w) /\ e[w] = Moved(w)'
    BY <1>1, <1>5, <1>6 DEF AllMoves
  <2> QED BY <2>1, <2>2
<1>8. Total(e, T) = Total(f, T)
  BY <1>5, <1>7, TotalAgrees
<1> QED BY <1>3, <1>4, <1>6, <1>8

(* The lines and the vouchers on them stay: so do the sums.                *)
LEMMA QuietSums ==
  ASSUME TInv, TInv', SumsFit, UNCHANGED <<bt, voucher, outstanding>>
  PROVE  SumsFit'
<1>1. \A t : Allocated(t)' = Allocated(t) /\ Unallocated(t)' = Unallocated(t)
  <2>1. \A t : Allocated(t) = Total(bt[t].paid, Vouchers) /\ Allocated(t)' = Total(bt'[t].paid, Vouchers)
    BY AllocatedIs, SumsLater
  <2>2. \A t : Allocated(t)' = Allocated(t)
    BY <2>1
  <2> QED BY <2>2 DEF Unallocated, Amount
<1>2. \A b : RowsAt(b)' = RowsAt(b)
  BY DEF RowsAt, Bank
<1>3. \A b, v : AllocatedBy(RowsAt(b), v)' = AllocatedBy(RowsAt(b), v)
  <2> SUFFICES ASSUME NEW b, NEW v
               PROVE  AllocatedBy(RowsAt(b), v)' = AllocatedBy(RowsAt(b), v)
    OBVIOUS
  <2>1. PICK T : T = RowsAt(b)
    OBVIOUS
  <2>2. T \in SUBSET Rows /\ T = RowsAt(b)'
    BY <1>2, <2>1 DEF TInv, TypeOK, RowsAt
  <2>3. AllocatedBy(RowsAt(b), v) = Total(Column(v), T)
        /\ AllocatedBy(RowsAt(b), v)' = Total(Column(v)', T)
    BY <2>1, <2>2, AllocatedByIs, SumsLater
  <2>4. Column(v)' = Column(v)
    BY DEF Column
  <2> QED BY <2>3, <2>4
<1>4. Standing' = Standing
  BY DEF Standing
<1>5. \A i : PaidOn(i)' = PaidOn(i)
  <2> SUFFICES ASSUME NEW i PROVE PaidOn(i)' = PaidOn(i)
    OBVIOUS
  <2>1. PaymentsOf(i)' = PaymentsOf(i)
    BY <1>4 DEF PaymentsOf
  <2> QED BY <2>1, PaidOnStays
<1>6. LinesFit'
  BY <1>1 DEF SumsFit, LinesFit
<1>7. OnlyStanding'
  BY <1>4 DEF SumsFit, OnlyStanding
<1>8. VouchersFit'
  BY <1>3 DEF SumsFit, VouchersFit
<1>9. PaymentsSettle'
  BY <1>4 DEF SumsFit, PaymentsSettle, Settles, Bank
<1>10. InvoicesAddUp'
  BY <1>5 DEF SumsFit, InvoicesAddUp
<1> QED BY <1>6, <1>7, <1>8, <1>9, <1>10 DEF SumsFit

(* An allocation that fits: of a voucher that stands open, to a line that  *)
(* has it open.                                                            *)
LEMMA AllocationFits ==
  ASSUME TInv, TInv', SumsFit, NEW t \in DOMAIN bt, NEW v \in Standing, NEW x \in Nat \ {0},
         bt[t].paid[v] = 0, Open(Bank(t), v) > 0,
         x <= Open(Bank(t), v), x <= Unallocated(t), CellIs(t, v, x),
         UNCHANGED <<voucher, outstanding>>
  PROVE  SumsFit'
<1>0. /\ DOMAIN bt' = DOMAIN bt /\ Standing' = Standing
      /\ v \in Vouchers /\ v \in DOMAIN voucher /\ Bank(t) \in Banks
      /\ voucher[v].moves \in [Banks -> Int]
  <2>1. DOMAIN bt' = DOMAIN bt /\ Standing' = Standing
    BY DEF CellIs, Standing
  <2>2. Bank(t) \in Banks
    BY Cells DEF TInv
  <2>3. v \in Vouchers /\ v \in DOMAIN voucher /\ voucher[v].moves \in [Banks -> Int]
    BY DEF TInv, TypeOK, Standing, VoucherRow
  <2> QED BY <2>1, <2>2, <2>3
<1>1. \A u \in DOMAIN bt :
        /\ Bank(u)' = Bank(u) /\ Amount(u)' = Amount(u)
        /\ \A w \in Vouchers : bt'[u].paid[w] = IF u = t /\ w = v THEN x ELSE bt[u].paid[w]
        /\ Allocated(u)' = IF u = t THEN Allocated(t) - bt[t].paid[v] + x ELSE Allocated(u)
  BY DEF CellIs
<1>2. \A b : \A w \in Vouchers :
        AllocatedBy(RowsAt(b), w)' =
          IF b = Bank(t) /\ w = v THEN AllocatedBy(RowsAt(b), v) - bt[t].paid[v] + x
          ELSE AllocatedBy(RowsAt(b), w)
  BY DEF CellIs
<1>3. LinesFit'
  <2> SUFFICES ASSUME NEW u \in DOMAIN bt PROVE Unallocated(u)' >= 0
    BY <1>0 DEF LinesFit
  <2>1. Size(Amount(u)) \in Nat /\ Allocated(u) \in Nat /\ Unallocated(u) \in Int
    BY Cells DEF TInv
  <2>2. Unallocated(u) >= 0 /\ Unallocated(u)' = Size(Amount(u)) - Allocated(u)'
    BY <1>1 DEF SumsFit, LinesFit, Unallocated
  <2>3. Allocated(u)' = Allocated(u) \/ (u = t /\ Allocated(u)' = Allocated(u) + x)
    BY <1>1, <2>1
  <2> QED BY <2>1, <2>2, <2>3 DEF Unallocated
<1>4. OnlyStanding'
  BY <1>0, <1>1 DEF SumsFit, OnlyStanding
<1>5. VouchersFit'
  <2> SUFFICES ASSUME NEW b \in Banks, NEW w \in DOMAIN voucher
               PROVE  AllocatedBy(RowsAt(b), w)' <= Size(voucher[w].moves[b])
    BY DEF VouchersFit
  <2>1. w \in Vouchers /\ RowsAt(b) \in SUBSET DOMAIN bt
    BY Cells DEF TInv, TypeOK
  <2>2. AllocatedBy(RowsAt(b), w) <= Size(voucher[w].moves[b])
    BY DEF SumsFit, VouchersFit
  <2>3. CASE b = Bank(t) /\ w = v
    <3>1. AllocatedBy(RowsAt(b), v) \in Nat
      BY <1>0, <2>1, Cells DEF TInv
    <3>2. Size(voucher[v].moves[b]) \in Nat
      BY <1>0, Movings
    <3>3. AllocatedBy(RowsAt(b), v)' = AllocatedBy(RowsAt(b), v) + x
      BY <1>0, <1>2, <2>3, <3>1
    <3>4. x <= Size(voucher[v].moves[b]) - AllocatedBy(RowsAt(b), v)
      BY <2>3 DEF Open
    <3> QED BY <2>3, <3>1, <3>2, <3>3, <3>4
  <2>4. CASE ~(b = Bank(t) /\ w = v)
    BY <1>2, <2>1, <2>2, <2>4
  <2> QED BY <2>3, <2>4
<1>6. ~\E s \in DOMAIN bt : Settles(s, v)
  <2> SUFFICES ASSUME NEW s \in DOMAIN bt, Settles(s, v) PROVE FALSE
    OBVIOUS
  <2>1. RowsAt(Bank(t)) \in SUBSET DOMAIN bt
    BY Cells DEF TInv
  <2>2. AllocatedBy(RowsAt(Bank(t)), v) \in Nat
    BY <1>0, <2>1, Cells DEF TInv
  <2>3. CASE Bank(s) = Bank(t)
    <3>1. s \in RowsAt(Bank(t))
      BY <2>3 DEF RowsAt
    <3>2. bt[s].paid[v] <= AllocatedBy(RowsAt(Bank(t)), v)
      BY <1>0, <2>1, <3>1, Columns DEF TInv
    <3>3. bt[s].paid[v] = Size(voucher[v].moves[Bank(t)])
      BY <2>3 DEF Settles
    <3>4. Size(voucher[v].moves[Bank(t)]) \in Nat
      BY <1>0, Movings
    <3> QED BY <2>2, <3>2, <3>3, <3>4 DEF Open
  <2>4. CASE Bank(s) # Bank(t)
    <3>1. Size(voucher[v].moves[Bank(t)]) = 0
      BY <1>0, <2>4 DEF Settles, Size
    <3> QED BY <2>2, <3>1 DEF Open
  <2> QED BY <2>3, <2>4
<1>7. PaymentsSettle'
  <2> SUFFICES ASSUME NEW w \in Standing, voucher[w].pays # None
               PROVE  \E s \in DOMAIN bt : Settles(s, w)'
    BY <1>0 DEF PaymentsSettle
  <2>1. PICK s \in DOMAIN bt : Settles(s, w)
    BY DEF SumsFit, PaymentsSettle
  <2>2. w # v /\ w \in Vouchers
    BY <1>6, <2>1 DEF TInv, TypeOK, Standing
  <2>3. \A u \in DOMAIN bt : bt'[u].paid[w] = bt[u].paid[w]
    BY <1>1, <2>2
  <2> QED BY <1>0, <1>1, <2>1, <2>3 DEF Settles
<1>8. InvoicesAddUp'
  <2>1. \A i : PaymentsOf(i)' = PaymentsOf(i)
    BY <1>0 DEF PaymentsOf
  <2>2. \A i : PaidOn(i)' = PaidOn(i)
    BY <2>1, PaidOnStays
  <2> QED BY <2>2 DEF SumsFit, InvoicesAddUp
<1> QED BY <1>3, <1>4, <1>5, <1>7, <1>8 DEF SumsFit

(* A voucher that pays nothing of this model's and is allocated nowhere.   *)
LEMMA PlainVoucherFits ==
  ASSUME TInv, TInv', SumsFit, NEW v \in Vouchers, v \notin DOMAIN voucher, NEW row \in VoucherRow,
         voucher' = Put(voucher, v, row), row.docstatus = 1, row.pays = None,
         UNCHANGED <<bt, outstanding>>
  PROVE  SumsFit'
<1>1. /\ DOMAIN voucher' = DOMAIN voucher \cup {v} /\ voucher'[v] = row
      /\ \A w \in DOMAIN voucher : voucher'[w] = voucher[w]
  BY NewVoucherTypes
<1>2. Standing' = Standing \cup {v} /\ v \notin Standing
  BY <1>1 DEF Standing
<1>3. \A t : Allocated(t)' = Allocated(t) /\ Unallocated(t)' = Unallocated(t)
  <2>1. \A t : Allocated(t) = Total(bt[t].paid, Vouchers) /\ Allocated(t)' = Total(bt'[t].paid, Vouchers)
    BY AllocatedIs, SumsLater
  <2>2. \A t : Allocated(t)' = Allocated(t)
    BY <2>1
  <2> QED BY <2>2 DEF Unallocated, Amount
<1>4. LinesFit'
  BY <1>3 DEF SumsFit, LinesFit
<1>5. OnlyStanding'
  BY <1>2 DEF SumsFit, OnlyStanding
<1>6. VouchersFit'
  <2> SUFFICES ASSUME NEW b \in Banks, NEW w \in DOMAIN voucher'
               PROVE  AllocatedBy(RowsAt(b), w)' <= Size(voucher'[w].moves[b])
    BY DEF VouchersFit
  <2>1. PICK T : T = RowsAt(b)
    OBVIOUS
  <2>2. T \in SUBSET DOMAIN bt /\ T \in SUBSET Rows /\ T = RowsAt(b)'
    BY <2>1 DEF TInv, TypeOK, RowsAt, Bank
  <2>3. AllocatedBy(T, w) = Total(Column(w), T)
        /\ AllocatedBy(RowsAt(b), w)' = Total(Column(w)', T)
    BY <2>1, <2>2, AllocatedByIs, SumsLater
  <2>4. Column(w)' = Column(w)
    BY DEF Column
  <2>5. AllocatedBy(RowsAt(b), w)' = AllocatedBy(RowsAt(b), w)
    BY <2>1, <2>3, <2>4
  <2>6. CASE w \in DOMAIN voucher
    BY <1>1, <2>5, <2>6 DEF SumsFit, VouchersFit
  <2>7. CASE w = v
    <3>1. \A u \in DOMAIN bt : bt[u].paid[v] = 0
      <4>1. \A u \in DOMAIN bt : bt[u].paid[v] \in Nat
        BY Cells DEF TInv
      <4>2. \A u \in DOMAIN bt : ~(bt[u].paid[v] > 0)
        BY <1>2 DEF SumsFit, OnlyStanding
      <4> QED BY <4>1, <4>2
    <3>2. AllocatedBy(RowsAt(b), v) = 0
      BY <2>1, <2>2, <3>1, Columns DEF TInv
    <3>3. row.moves[b] \in Int
      BY DEF VoucherRow
    <3> QED BY <1>1, <2>5, <2>7, <3>2, <3>3 DEF Size
  <2> QED BY <1>1, <2>6, <2>7
<1>7. PaymentsSettle'
  <2> SUFFICES ASSUME NEW w \in Standing', voucher'[w].pays # None
               PROVE  \E s \in DOMAIN bt' : Settles(s, w)'
    BY DEF PaymentsSettle
  <2>1. w \in Standing /\ voucher'[w] = voucher[w]
    BY <1>1, <1>2 DEF Standing
  <2>2. PICK s \in DOMAIN bt : Settles(s, w)
    BY <2>1 DEF SumsFit, PaymentsSettle
  <2> QED BY <2>1, <2>2 DEF Settles, Bank
<1>8. InvoicesAddUp'
  <2> SUFFICES ASSUME NEW i \in Invoices PROVE outstanding'[i] = Size(Due[i]) - PaidOn(i)'
    BY DEF InvoicesAddUp
  <2>1. i # None
    BY LinesAssumption
  <2>2. PaymentsOf(i)' = PaymentsOf(i)
    BY <1>1, <1>2, <2>1 DEF PaymentsOf, Standing
  <2>3. \A w \in PaymentsOf(i) : voucher'[w].moves = voucher[w].moves
    BY <1>1 DEF PaymentsOf, Standing
  <2>4. PaidOn(i)' = PaidOn(i)
    BY <2>2, <2>3, PaidOnStays
  <2> QED BY <2>4 DEF SumsFit, InvoicesAddUp
<1> QED BY <1>4, <1>5, <1>6, <1>7, <1>8 DEF SumsFit

(* A payment moves one bank, in the next state too.                        *)
LEMMA MovingsLater ==
  (\A m : voucher[m].moves \in [Banks -> Int] =>
     \A b \in Banks : (\A c \in Banks : c # b => voucher[m].moves[c] = 0)
                       => Moved(m) = Size(voucher[m].moves[b]))'
<1>1. \A m : voucher[m].moves \in [Banks -> Int] =>
        \A b \in Banks : (\A c \in Banks : c # b => voucher[m].moves[c] = 0)
                          => Moved(m) = Size(voucher[m].moves[b])
  BY Movings
<1> QED BY <1>1, PTL

(* A settlement: the payment is new, whole, and on its line.               *)
LEMMA SettlementFits ==
  ASSUME TInv, TInv', SumsFit, NEW t \in Rows, NEW i \in Invoices, NEW v \in Vouchers, Settle(t, i, v)
  PROVE  SumsFit'
<1>0. PICK x \in Nat \ {0} : x = Unallocated(t)
  BY SettleWrites
<1>1. /\ t \in DOMAIN bt /\ v \notin DOMAIN voucher
      /\ outstanding[i] \in Nat
      /\ outstanding' = [outstanding EXCEPT ![i] = outstanding[i] - x]
      /\ PaymentOf(t, i) \in VoucherRow
      /\ voucher' = Put(voucher, v, PaymentOf(t, i))
      /\ CellIs(t, v, x)
  BY <1>0, SettleWrites
<1>2. PICK row \in VoucherRow : row = PaymentOf(t, i)
  BY <1>1
<1>3. /\ DOMAIN voucher' = DOMAIN voucher \cup {v} /\ voucher'[v] = row
      /\ \A w \in DOMAIN voucher : voucher'[w] = voucher[w]
  BY <1>1, <1>2, NewVoucherTypes
<1>4. /\ row.docstatus = 1 /\ row.pays = i
      /\ \A b \in Banks : Size(row.moves[b]) = IF b = Bank(t) THEN x ELSE 0
      /\ \A b \in Banks : b # Bank(t) => row.moves[b] = 0
      /\ row.moves \in [Banks -> Int]
  <2>1. /\ row.docstatus = 1 /\ row.pays = i
        /\ \A b \in Banks : row.moves[b] = IF b # Bank(t) THEN 0
                                           ELSE IF Amount(t) < 0 THEN -x ELSE x
    BY <1>0, <1>2 DEF PaymentOf
  <2> QED BY <2>1 DEF Size, VoucherRow
<1>5. Standing' = Standing \cup {v} /\ v \notin Standing /\ Bank(t) \in Banks
  <2>1. Bank(t) \in Banks
    BY <1>1, Cells DEF TInv
  <2> QED BY <1>1, <1>3, <1>4, <2>1 DEF Standing
<1>6. \A u \in DOMAIN bt : bt[u].paid[v] = 0
  <2>1. \A u \in DOMAIN bt : bt[u].paid[v] \in Nat
    BY Cells DEF TInv
  <2>2. \A u \in DOMAIN bt : ~(bt[u].paid[v] > 0)
    BY <1>5 DEF SumsFit, OnlyStanding
  <2> QED BY <2>1, <2>2
<1>7. /\ DOMAIN bt' = DOMAIN bt
      /\ \A u \in DOMAIN bt :
           /\ Bank(u)' = Bank(u) /\ Amount(u)' = Amount(u)
           /\ \A w \in Vouchers : bt'[u].paid[w] = IF u = t /\ w = v THEN x ELSE bt[u].paid[w]
           /\ Allocated(u)' = IF u = t THEN Allocated(t) - bt[t].paid[v] + x ELSE Allocated(u)
  BY <1>1 DEF CellIs
<1>8. \A b : \A w \in Vouchers :
        AllocatedBy(RowsAt(b), w)' =
          IF b = Bank(t) /\ w = v THEN AllocatedBy(RowsAt(b), v) - bt[t].paid[v] + x
          ELSE AllocatedBy(RowsAt(b), w)
  BY <1>1 DEF CellIs
<1>9. LinesFit'
  <2> SUFFICES ASSUME NEW u \in DOMAIN bt PROVE Unallocated(u)' >= 0
    BY <1>7 DEF LinesFit
  <2>1. Size(Amount(u)) \in Nat /\ Allocated(u) \in Nat /\ Unallocated(u) \in Int
    BY Cells DEF TInv
  <2>2. Unallocated(u) >= 0 /\ Unallocated(u)' = Size(Amount(u)) - Allocated(u)'
    BY <1>7 DEF SumsFit, LinesFit, Unallocated
  <2>3. Allocated(u)' = Allocated(u) \/ (u = t /\ Allocated(u)' = Allocated(u) + x)
    BY <1>1, <1>6, <1>7, <2>1
  <2> QED BY <1>0, <2>1, <2>2, <2>3 DEF Unallocated
<1>10. OnlyStanding'
  BY <1>5, <1>7 DEF SumsFit, OnlyStanding
<1>11. VouchersFit'
  <2> SUFFICES ASSUME NEW b \in Banks, NEW w \in DOMAIN voucher'
               PROVE  AllocatedBy(RowsAt(b), w)' <= Size(voucher'[w].moves[b])
    BY DEF VouchersFit
  <2>1. CASE w \in DOMAIN voucher
    <3>1. w # v /\ w \in Vouchers /\ voucher'[w] = voucher[w]
      BY <1>1, <1>3, <2>1 DEF TInv, TypeOK
    <3>2. AllocatedBy(RowsAt(b), w) <= Size(voucher[w].moves[b])
      BY <2>1 DEF SumsFit, VouchersFit
    <3> QED BY <1>8, <3>1, <3>2
  <2>2. CASE w = v
    <3>1. RowsAt(b) \in SUBSET DOMAIN bt
      BY Cells DEF TInv
    <3>2. AllocatedBy(RowsAt(b), v) = 0
      BY <1>6, <3>1, Columns DEF TInv
    <3>3. AllocatedBy(RowsAt(b), v)' = IF b = Bank(t) THEN x ELSE 0
      BY <1>1, <1>6, <1>8, <3>2
    <3>4. Size(row.moves[b]) = IF b = Bank(t) THEN x ELSE 0
      BY <1>4
    <3> QED BY <1>3, <2>2, <3>3, <3>4
  <2> QED BY <1>3, <2>1, <2>2
<1>12. PaymentsSettle'
  <2> SUFFICES ASSUME NEW w \in Standing', voucher'[w].pays # None
               PROVE  \E s \in DOMAIN bt' : Settles(s, w)'
    BY DEF PaymentsSettle
  <2>1. CASE w = v
    <3>1. bt'[t].paid[v] = x /\ \A u \in DOMAIN bt : u # t => bt'[u].paid[v] = 0
      BY <1>1, <1>6, <1>7
    <3>2. Bank(t)' = Bank(t) /\ Size(row.moves[Bank(t)]) = x
      BY <1>1, <1>4, <1>5, <1>7
    <3>3. Settles(t, v)'
      BY <1>3, <1>4, <1>7, <3>1, <3>2 DEF Settles
    <3> QED BY <1>1, <1>7, <2>1, <3>3
  <2>2. CASE w # v
    <3>1. w \in Standing /\ w \in Vouchers /\ voucher'[w] = voucher[w]
      BY <1>3, <1>5, <2>2 DEF Standing, TInv, TypeOK
    <3>2. PICK s \in DOMAIN bt : Settles(s, w)
      BY <3>1 DEF SumsFit, PaymentsSettle
    <3>3. \A u \in DOMAIN bt : bt'[u].paid[w] = bt[u].paid[w]
      BY <1>7, <2>2, <3>1
    <3>4. Settles(s, w)'
      BY <1>7, <3>1, <3>2, <3>3 DEF Settles
    <3> QED BY <1>7, <3>4
  <2> QED BY <2>1, <2>2
<1>13. InvoicesAddUp'
  <2> SUFFICES ASSUME NEW j \in Invoices PROVE outstanding'[j] = Size(Due[j]) - PaidOn(j)'
    BY DEF InvoicesAddUp
  <2>0. outstanding[j] = Size(Due[j]) - PaidOn(j) /\ outstanding \in [Invoices -> Nat]
    BY DEF SumsFit, InvoicesAddUp, TInv, TypeOK
  <2>1. CASE j # i
    <3>1. PaymentsOf(j)' = PaymentsOf(j)
      BY <1>3, <1>4, <1>5, <2>1 DEF PaymentsOf, Standing
    <3>2. \A w \in PaymentsOf(j) : voucher'[w].moves = voucher[w].moves
      BY <1>3 DEF PaymentsOf, Standing
    <3>3. PaidOn(j)' = PaidOn(j)
      BY <3>1, <3>2, PaidOnStays
    <3> QED BY <1>1, <2>0, <2>1, <3>3
  <2>2. CASE j = i
    <3>1. PICK T : T = PaymentsOf(i)
      OBVIOUS
    <3>2. PaymentsOf(i)' = T \cup {v} /\ v \notin T
      BY <1>3, <1>4, <1>5, <3>1 DEF PaymentsOf, Standing
    <3>3. DOMAIN voucher \subseteq Vouchers /\ DOMAIN voucher' \subseteq Vouchers
          /\ T \subseteq DOMAIN voucher
      BY <3>1 DEF TInv, TypeOK, PaymentsOf, Standing
    <3>4. IsFiniteSet(T)
      <4>1. T \subseteq Vouchers /\ IsFiniteSet(Vouchers)
        BY <3>3, LinesAssumption
      <4> QED BY <4>1, FS_Subset
    <3>5. PICK f, e : f = AllMoves /\ e = AllMoves'
      OBVIOUS
    <3>6. PaidOn(i) = Total(f, T) /\ PaidOn(i)' = Total(e, T \cup {v})
      BY <3>1, <3>2, <3>3, <3>5, PaidOnIs, SumsLater
    <3>7. \A w \in T : f[w] \in Nat /\ e[w] = f[w]
      <4> SUFFICES ASSUME NEW w \in T PROVE f[w] \in Nat /\ e[w] = f[w]
        OBVIOUS
      <4>1. voucher[w].moves \in [Banks -> Int] /\ voucher'[w] = voucher[w]
        BY <1>3, <3>3 DEF TInv, TypeOK, VoucherRow
      <4>2. Moved(w) \in Nat /\ Moved(w)' = Moved(w)
        BY <4>1, Movings, MovedStays
      <4>3. f[w] = Moved(w) /\ e[w] = Moved(w)'
        BY <3>3, <3>5 DEF AllMoves
      <4> QED BY <4>2, <4>3
    <3>8. e[v] = x
      <4>1. (\A m : voucher[m].moves \in [Banks -> Int] =>
               \A b \in Banks : (\A c \in Banks : c # b => voucher[m].moves[c] = 0)
                                 => Moved(m) = Size(voucher[m].moves[b]))'
        BY MovingsLater
      <4>2. Moved(v)' = Size(row.moves[Bank(t)])
        BY <1>3, <1>4, <1>5, <4>1
      <4>3. e[v] = Moved(v)'
        BY <3>5 DEF AllMoves
      <4> QED BY <1>4, <1>5, <4>2, <4>3
    <3>9. Total(e, T \cup {v}) = e[v] + Total(e, T)
      <4>1. \A w \in T \cup {v} : e[w] \in Int
        BY <3>7, <3>8
      <4> QED BY <3>2, <3>4, <4>1, TotalAdd
    <3>10. Total(e, T) = Total(f, T)
      BY <3>4, <3>7, TotalAgrees
    <3>11. PaidOn(i)' = x + PaidOn(i)
      BY <3>6, <3>8, <3>9, <3>10
    <3>12. PaidOn(i) \in Int /\ Size(Due[i]) \in Int
      <4>1. Total(f, T) \in Int
        BY <3>4, <3>7, TotalType
      <4>2. Size(Due[i]) \in Int
        BY LinesAssumption DEF Size
      <4> QED BY <3>6, <4>1, <4>2
    <3>13. outstanding'[i] = outstanding[i] - x
      BY <1>1, <2>0
    <3> QED BY <2>0, <2>2, <3>11, <3>12, <3>13
  <2> QED BY <2>1, <2>2
<1> QED BY <1>9, <1>10, <1>11, <1>12, <1>13 DEF SumsFit

(* A cancelled payment is taken off its line, and its invoice owes it.     *)
LEMMA CancellationFits ==
  ASSUME TInv, TInv', SumsFit, NEW v \in DOMAIN voucher, CancelPayment(v)
  PROVE  SumsFit'
<1>1. /\ v \in Vouchers /\ v \in Standing /\ voucher[v].pays \in Invoices
      /\ DOMAIN voucher' = DOMAIN voucher
      /\ \A w \in DOMAIN voucher :
           /\ voucher'[w].moves = voucher[w].moves /\ voucher'[w].pays = voucher[w].pays
           /\ voucher'[w].docstatus = IF w = v THEN 2 ELSE voucher[w].docstatus
      /\ outstanding' = [outstanding EXCEPT ![voucher[v].pays] = outstanding[voucher[v].pays] + Moved(v)]
      /\ DOMAIN bt' = DOMAIN bt
      /\ \A u \in DOMAIN bt :
           /\ bt'[u].line = bt[u].line
           /\ \A w \in Vouchers : bt'[u].paid[w] = IF w = v THEN 0 ELSE bt[u].paid[w]
      /\ Moved(v) \in Nat
  BY CancelWrites
<1>2. Standing' = Standing \ {v}
  BY <1>1 DEF Standing
<1>3. \A u \in DOMAIN bt : Bank(u)' = Bank(u) /\ Amount(u)' = Amount(u)
  BY <1>1 DEF Bank, Amount
<1>4. \A b : RowsAt(b)' = RowsAt(b)
  BY <1>1, <1>3 DEF RowsAt
<1>5. \A u \in DOMAIN bt : \A w \in Vouchers : bt[u].paid[w] \in Nat
  BY Cells DEF TInv
<1>6. LinesFit'
  <2> SUFFICES ASSUME NEW u \in DOMAIN bt PROVE Unallocated(u)' >= 0
    BY <1>1 DEF LinesFit
  <2>1. Allocated(u) = Total(bt[u].paid, Vouchers) /\ Allocated(u)' = Total(bt'[u].paid, Vouchers)
    BY AllocatedIs, SumsLater
  <2>2. PICK f, e : f = bt[u].paid /\ e = bt'[u].paid
    OBVIOUS
  <2>3. \A w \in Vouchers : f[w] \in Int /\ e[w] \in Int /\ e[w] <= f[w]
    <3> SUFFICES ASSUME NEW w \in Vouchers PROVE f[w] \in Int /\ e[w] \in Int /\ e[w] <= f[w]
      OBVIOUS
    <3>1. f[w] \in Nat
      BY <1>5, <2>2
    <3>2. e[w] = IF w = v THEN 0 ELSE f[w]
      BY <1>1, <2>2
    <3> QED BY <3>1, <3>2
  <2>4. Total(e, Vouchers) <= Total(f, Vouchers)
    BY <2>3, LinesAssumption, TotalMonotone
  <2>5. Total(e, Vouchers) \in Int
    BY <2>3, LinesAssumption, TotalType
  <2>6. Size(Amount(u)) \in Nat /\ Allocated(u) \in Nat /\ Unallocated(u) >= 0
    BY Cells DEF TInv, SumsFit, LinesFit
  <2>7. Unallocated(u)' = Size(Amount(u)) - Allocated(u)'
    BY <1>3 DEF Unallocated
  <2> QED BY <2>1, <2>2, <2>4, <2>5, <2>6, <2>7 DEF Unallocated
<1>7. OnlyStanding'
  <2> SUFFICES ASSUME NEW u \in DOMAIN bt, NEW w \in Vouchers, bt'[u].paid[w] > 0
               PROVE  w \in Standing'
    BY <1>1 DEF OnlyStanding
  <2>1. w # v /\ bt[u].paid[w] > 0
    BY <1>1
  <2> QED BY <1>2, <2>1 DEF SumsFit, OnlyStanding
<1>8. VouchersFit'
  <2> SUFFICES ASSUME NEW b \in Banks, NEW w \in DOMAIN voucher
               PROVE  AllocatedBy(RowsAt(b), w)' <= Size(voucher[w].moves[b])
    BY <1>1 DEF VouchersFit
  <2>1. PICK T : T = RowsAt(b)
    OBVIOUS
  <2>2. T \in SUBSET DOMAIN bt /\ T \in SUBSET Rows /\ T = RowsAt(b)' /\ w \in Vouchers
    BY <1>4, <2>1 DEF TInv, TypeOK, RowsAt
  <2>3. AllocatedBy(RowsAt(b), w) = Total(Column(w), T)
        /\ AllocatedBy(RowsAt(b), w)' = Total(Column(w)', T)
    BY <2>1, <2>2, AllocatedByIs, SumsLater
  <2>4. PICK f, e : f = Column(w) /\ e = Column(w)'
    OBVIOUS
  <2>5. \A u \in T : f[u] \in Int /\ e[u] \in Int /\ e[u] <= f[u]
    <3> SUFFICES ASSUME NEW u \in T PROVE f[u] \in Int /\ e[u] \in Int /\ e[u] <= f[u]
      OBVIOUS
    <3>1. f[u] = bt[u].paid[w] /\ e[u] = bt'[u].paid[w]
      BY <2>2, <2>4 DEF Column
    <3>2. e[u] = IF w = v THEN 0 ELSE f[u]
      BY <1>1, <2>2, <3>1
    <3>3. f[u] \in Nat
      BY <1>5, <2>2, <3>1
    <3> QED BY <3>2, <3>3
  <2>6. IsFiniteSet(T)
    BY <2>2, LinesAssumption, FS_Subset
  <2>7. Total(e, T) <= Total(f, T)
    BY <2>5, <2>6, TotalMonotone
  <2>8. Total(e, T) \in Int /\ Total(f, T) \in Int
    BY <2>5, <2>6, TotalType
  <2>9. AllocatedBy(RowsAt(b), w) <= Size(voucher[w].moves[b])
    BY DEF SumsFit, VouchersFit
  <2>10. Size(voucher[w].moves[b]) \in Int
    BY DEF TInv, TypeOK, VoucherRow, Size
  <2> QED BY <2>3, <2>4, <2>7, <2>8, <2>9, <2>10
<1>9. PaymentsSettle'
  <2> SUFFICES ASSUME NEW w \in Standing', voucher'[w].pays # None
               PROVE  \E s \in DOMAIN bt' : Settles(s, w)'
    BY DEF PaymentsSettle
  <2>1. w \in Standing /\ w # v /\ w \in DOMAIN voucher /\ w \in Vouchers
    BY <1>2 DEF Standing, TInv, TypeOK
  <2>2. PICK s \in DOMAIN bt : Settles(s, w)
    BY <1>1, <2>1 DEF SumsFit, PaymentsSettle
  <2>3. \A u \in DOMAIN bt : bt'[u].paid[w] = bt[u].paid[w]
    BY <1>1, <2>1
  <2>4. Settles(s, w)'
    BY <1>1, <1>3, <2>1, <2>2, <2>3 DEF Settles
  <2> QED BY <1>1, <2>4
<1>10. InvoicesAddUp'
  <2> SUFFICES ASSUME NEW j \in Invoices PROVE outstanding'[j] = Size(Due[j]) - PaidOn(j)'
    BY DEF InvoicesAddUp
  <2> DEFINE i == voucher[v].pays
  <2>0. outstanding[j] = Size(Due[j]) - PaidOn(j) /\ outstanding \in [Invoices -> Nat]
    BY DEF SumsFit, InvoicesAddUp, TInv, TypeOK
  <2>00. \A w \in DOMAIN voucher : voucher'[w].moves = voucher[w].moves
    BY <1>1
  <2>1. CASE j # i
    <3>1. PaymentsOf(j)' = PaymentsOf(j)
      BY <1>1, <1>2, <2>1 DEF PaymentsOf, Standing
    <3>2. \A w \in PaymentsOf(j) : voucher'[w].moves = voucher[w].moves
      BY <2>00 DEF PaymentsOf, Standing
    <3>3. PaidOn(j)' = PaidOn(j)
      BY <3>1, <3>2, PaidOnStays
    <3> QED BY <1>1, <2>0, <2>1, <3>3
  <2>2. CASE j = i
    <3>1. PICK T : T = PaymentsOf(j)
      OBVIOUS
    <3>2. PaymentsOf(j)' = T \ {v} /\ v \in T
      BY <1>1, <1>2, <2>2, <3>1 DEF PaymentsOf, Standing
    <3>3. DOMAIN voucher \subseteq Vouchers /\ DOMAIN voucher' \subseteq Vouchers
          /\ T \subseteq DOMAIN voucher
      BY <3>1 DEF TInv, TypeOK, PaymentsOf, Standing
    <3>4. IsFiniteSet(T) /\ IsFiniteSet(T \ {v})
      <4>1. T \subseteq Vouchers /\ IsFiniteSet(Vouchers)
        BY <3>3, LinesAssumption
      <4> QED BY <4>1, FS_Subset
    <3>5. PICK f, e : f = AllMoves /\ e = AllMoves'
      OBVIOUS
    <3>6. PaidOn(j) = Total(f, T) /\ PaidOn(j)' = Total(e, T \ {v})
      BY <3>1, <3>2, <3>3, <3>5, PaidOnIs, SumsLater
    <3>7. \A w \in T : f[w] \in Nat /\ e[w] = f[w] /\ f[w] = Moved(w)
      <4> SUFFICES ASSUME NEW w \in T PROVE f[w] \in Nat /\ e[w] = f[w] /\ f[w] = Moved(w)
        OBVIOUS
      <4>1. voucher[w].moves \in [Banks -> Int] /\ voucher'[w].moves = voucher[w].moves
        BY <2>00, <3>3 DEF TInv, TypeOK, VoucherRow
      <4>2. Moved(w) \in Nat /\ Moved(w)' = Moved(w)
        BY <4>1, Movings, MovedStays
      <4>3. f[w] = Moved(w) /\ e[w] = Moved(w)'
        BY <3>3, <3>5 DEF AllMoves
      <4> QED BY <4>2, <4>3
    <3>8. Total(f, T) = f[v] + Total(f, T \ {v})
      <4>1. \A w \in T : f[w] \in Int
        BY <3>7
      <4> QED BY <3>2, <3>4, <4>1, TotalRemove
    <3>9. Total(e, T \ {v}) = Total(f, T \ {v})
      BY <3>4, <3>7, TotalAgrees
    <3>10. Total(f, T \ {v}) \in Int /\ Size(Due[j]) \in Int
      <4>1. Total(f, T \ {v}) \in Int
        BY <3>4, <3>7, TotalType
      <4>2. Size(Due[j]) \in Int
        BY LinesAssumption DEF Size
      <4> QED BY <4>1, <4>2
    <3>11. f[v] = Moved(v)
      BY <3>2, <3>7
    <3>12. outstanding'[j] = outstanding[j] + Moved(v)
      BY <1>1, <2>0, <2>2
    <3> QED BY <1>1, <2>0, <3>6, <3>8, <3>9, <3>10, <3>11, <3>12
  <2> QED BY <2>1, <2>2
<1> QED BY <1>6, <1>7, <1>8, <1>9, <1>10 DEF SumsFit

(* New lines come with nothing allocated.                                  *)
LEMMA ImportFits ==
  ASSUME TInv, TInv', SumsFit, NEW T \in SUBSET Rows, NewRows(T),
         UNCHANGED <<voucher, outstanding>>
  PROVE  SumsFit'
<1>1. /\ T \cap DOMAIN bt = {} /\ DOMAIN bt' = DOMAIN bt \cup T
      /\ \A t \in T : bt'[t] \in BtRow /\ \A v \in Vouchers : bt'[t].paid[v] = 0
      /\ \A t \in DOMAIN bt : bt'[t] = bt[t]
  BY DEF NewRows
<1>2. Standing' = Standing
  BY DEF Standing
<1>3. \A t \in DOMAIN bt : Bank(t)' = Bank(t) /\ Amount(t)' = Amount(t)
  BY <1>1 DEF Bank, Amount
<1>4. LinesFit'
  <2> SUFFICES ASSUME NEW u \in DOMAIN bt' PROVE Unallocated(u)' >= 0
    BY DEF LinesFit
  <2>1. Allocated(u) = Total(bt[u].paid, Vouchers) /\ Allocated(u)' = Total(bt'[u].paid, Vouchers)
    BY AllocatedIs, SumsLater
  <2>2. CASE u \in DOMAIN bt
    <3>1. Allocated(u)' = Allocated(u)
      BY <1>1, <2>1, <2>2
    <3>2. Unallocated(u)' = Unallocated(u)
      BY <1>3, <2>2, <3>1 DEF Unallocated
    <3> QED BY <2>2, <3>2 DEF SumsFit, LinesFit
  <2>3. CASE u \in T
    <3>1. Allocated(u)' = 0
      BY <1>1, <2>1, <2>3, LinesAssumption, TotalZero
    <3>2. Size(Amount(u)') \in Nat
      <4>1. bt'[u].line \in Lines
        BY <1>1, <2>3 DEF BtRow
      <4>2. Attr[bt'[u].line].amount \in Int
        BY <4>1, LinesAssumption
      <4> QED BY <4>2 DEF Size, Amount
    <3>3. Unallocated(u)' = Size(Amount(u)') - Allocated(u)'
      BY DEF Unallocated
    <3> QED BY <3>1, <3>2, <3>3
  <2> QED BY <1>1, <2>2, <2>3
<1>5. OnlyStanding'
  <2> SUFFICES ASSUME NEW u \in DOMAIN bt', NEW v \in Vouchers, bt'[u].paid[v] > 0
               PROVE  v \in Standing
    BY <1>2 DEF OnlyStanding
  <2>1. u \in DOMAIN bt
    BY <1>1
  <2> QED BY <1>1, <2>1 DEF SumsFit, OnlyStanding
<1>6. VouchersFit'
  <2> SUFFICES ASSUME NEW b \in Banks, NEW w \in DOMAIN voucher
               PROVE  AllocatedBy(RowsAt(b), w)' <= Size(voucher[w].moves[b])
    BY DEF VouchersFit
  <2>1. PICK R, Q : R = RowsAt(b) /\ Q = RowsAt(b)'
    OBVIOUS
  <2>2. R \in SUBSET DOMAIN bt /\ R \in SUBSET Rows /\ Q \in SUBSET Rows /\ w \in Vouchers
    BY <2>1 DEF TInv, TypeOK, RowsAt
  <2>3. R \subseteq Q /\ Q \ R \subseteq T
    BY <1>1, <1>3, <2>1 DEF RowsAt
  <2>4. AllocatedBy(RowsAt(b), w) = Total(Column(w), R)
        /\ AllocatedBy(RowsAt(b), w)' = Total(Column(w)', Q)
    BY <2>1, <2>2, AllocatedByIs, SumsLater
  <2>5. PICK f, e : f = Column(w) /\ e = Column(w)'
    OBVIOUS
  <2>6. /\ \A u \in R : f[u] \in Int /\ e[u] = f[u]
        /\ \A u \in Q \ R : e[u] = 0
    <3>1. \A u \in Rows : f[u] = bt[u].paid[w] /\ e[u] = bt'[u].paid[w]
      BY <2>5 DEF Column
    <3>2. \A u \in R : bt[u].paid[w] \in Nat /\ bt'[u] = bt[u]
      BY <1>1, <2>2, Cells DEF TInv
    <3>3. \A u \in Q \ R : bt'[u].paid[w] = 0
      BY <1>1, <2>2, <2>3
    <3> QED BY <2>2, <3>1, <3>2, <3>3
  <2>7. IsFiniteSet(R) /\ IsFiniteSet(Q) /\ IsFiniteSet(Q \ R)
    BY <2>2, LinesAssumption, FS_Subset
  <2>8. Total(e, Q) = Total(e, R) + Total(e, Q \ R)
    <3>1. \A u \in Q : e[u] \in Int
      BY <2>6
    <3> QED BY <2>3, <2>7, <3>1, TotalSplit
  <2>9. Total(e, Q \ R) = 0
    BY <2>6, <2>7, TotalZero
  <2>10. Total(e, R) = Total(f, R)
    BY <2>6, <2>7, TotalAgrees
  <2>11. Total(f, R) \in Int
    BY <2>6, <2>7, TotalType
  <2>12. AllocatedBy(RowsAt(b), w)' = AllocatedBy(RowsAt(b), w)
    BY <2>4, <2>5, <2>8, <2>9, <2>10, <2>11
  <2> QED BY <2>12 DEF SumsFit, VouchersFit
<1>7. PaymentsSettle'
  <2> SUFFICES ASSUME NEW w \in Standing, voucher[w].pays # None
               PROVE  \E s \in DOMAIN bt' : Settles(s, w)'
    BY <1>2 DEF PaymentsSettle
  <2>0. w \in Vouchers
    BY DEF Standing, TInv, TypeOK
  <2>1. PICK s \in DOMAIN bt : Settles(s, w)
    BY DEF SumsFit, PaymentsSettle
  <2>2. \A u \in DOMAIN bt' : bt'[u].paid[w] > 0 => u \in DOMAIN bt /\ bt[u].paid[w] > 0
    BY <1>1, <2>0
  <2>3. Settles(s, w)'
    BY <1>1, <1>3, <2>1, <2>2 DEF Settles
  <2> QED BY <1>1, <2>3
<1>8. InvoicesAddUp'
  <2>1. \A i : PaymentsOf(i)' = PaymentsOf(i)
    BY <1>2 DEF PaymentsOf
  <2>2. \A i : PaidOn(i)' = PaidOn(i)
    BY <2>1, PaidOnStays
  <2> QED BY <2>2 DEF SumsFit, InvoicesAddUp
<1> QED BY <1>4, <1>5, <1>6, <1>7, <1>8 DEF SumsFit

(* Every step keeps the sums.                                              *)
LEMMA StepFits ==
  ASSUME TInv, TInv', SumsFit, [Next]_vars
  PROVE  SumsFit'
<1>1. CASE UNCHANGED <<bt, voucher, outstanding>>
  BY <1>1, QuietSums
<1>2. ASSUME NEW S \in Statements, Import(S) PROVE SumsFit'
  <2>1. PICK N \in NewLines(S) : Stores(N) \/ UNCHANGED <<bt, run>>
    BY <1>2 DEF Import
  <2>2. N \in SUBSET S /\ UNCHANGED <<voucher, outstanding>>
    BY <1>2 DEF Import, NewLines
  <2>3. CASE Stores(N)
    <3>1. PICK T \in SUBSET Rows : NewRows(T)
      BY <2>2, <2>3, StoresNewRows DEF TInv
    <3> QED BY <2>2, <3>1, ImportFits
  <2>4. CASE UNCHANGED <<bt, run>>
    BY <2>2, <2>4, QuietSums
  <2> QED BY <2>1, <2>3, <2>4
<1>3. ASSUME NEW t \in DOMAIN bt, NEW v \in Vouchers, RunMatches(t, v) PROVE SumsFit'
  <2>1. PICK x \in Nat \ {0} : /\ x <= Open(Bank(t), v) /\ x <= Unallocated(t)
                               /\ CellIs(t, v, x)
    BY <1>3, RunMatchWrites
  <2>2. v \in Standing /\ bt[t].paid[v] = 0 /\ Open(Bank(t), v) > 0
    BY <1>3, RunMatchWrites
  <2>3. UNCHANGED <<voucher, outstanding>>
    BY <1>3 DEF RunMatches
  <2> QED BY <2>1, <2>2, <2>3, AllocationFits
<1>4. ASSUME NEW t \in Rows, NEW v \in Vouchers, Match(t, v) PROVE SumsFit'
  <2>1. PICK x \in Nat \ {0} : /\ x <= Open(Bank(t), v) /\ x <= Unallocated(t)
                               /\ CellIs(t, v, x)
    BY <1>4, MatchWrites
  <2>2. t \in DOMAIN bt /\ v \in Standing /\ bt[t].paid[v] = 0 /\ Open(Bank(t), v) > 0
    BY <1>4, MatchWrites
  <2>3. UNCHANGED <<voucher, outstanding>>
    BY <1>4 DEF Match
  <2> QED BY <2>1, <2>2, <2>3, AllocationFits
<1>5. ASSUME NEW t \in Rows, NEW v \in Vouchers, NEW i \in Invoices, Settle(t, i, v) PROVE SumsFit'
  BY <1>5, SettlementFits
<1>6. ASSUME NEW p \in DOMAIN proposal, NEW v \in Vouchers, ApproveProposal(p, v) PROVE SumsFit'
  <2>1. UNCHANGED <<bt, outstanding>>
    BY <1>6 DEF ApproveProposal
  <2>2. v \notin DOMAIN voucher
        /\ \E row \in VoucherRow : /\ voucher' = Put(voucher, v, row)
                                 /\ row.docstatus = 1 /\ row.pays = None
    BY <1>6, ApprovalWrites
  <2> QED BY <2>1, <2>2, PlainVoucherFits
<1>7. ASSUME NEW v \in Vouchers, NEW moves \in DeskMoves, PostVoucher(v, moves) PROVE SumsFit'
  <2>1. UNCHANGED <<bt, outstanding>>
    BY <1>7 DEF PostVoucher
  <2>2. v \notin DOMAIN voucher
        /\ \E row \in VoucherRow : /\ voucher' = Put(voucher, v, row)
                                 /\ row.docstatus = 1 /\ row.pays = None
    BY <1>7, PostingWrites
  <2> QED BY <2>1, <2>2, PlainVoucherFits
<1>8. ASSUME NEW v \in DOMAIN voucher, CancelPayment(v) PROVE SumsFit'
  BY <1>8, CancellationFits
<1>9. CASE RunStep
  <2>1. \/ UNCHANGED <<bt, voucher, outstanding>>
        \/ \E t \in DOMAIN bt, v \in Vouchers : RunMatches(t, v)
    BY <1>9 DEF RunStep, RunPassesPair, RunProposesTransfer, RunGoesToLines, RunProposesFee,
                RunLeaves, RunEnds, RunBreaks
  <2> QED BY <1>1, <1>3, <2>1
<1>10. CASE Tap
  <2>1. \/ UNCHANGED <<bt, voucher, outstanding>>
        \/ \E t \in Rows, v \in Vouchers : Match(t, v)
        \/ \E t \in Rows, v \in Vouchers, i \in Invoices : Settle(t, i, v)
        \/ \E p \in DOMAIN proposal, v \in Vouchers : ApproveProposal(p, v)
    BY <1>10 DEF Tap, Forget, Search, ProposeExpense, RejectProposal
  <2> QED BY <1>1, <1>4, <1>5, <1>6, <2>1
<1>11. CASE Desk
  BY <1>7, <1>8, <1>11 DEF Desk
<1>12. CASE UNCHANGED vars
  BY <1>1, <1>12 DEF vars
<1> QED BY <1>2, <1>9, <1>10, <1>11, <1>12 DEF Next

(* The sums are what AllocationsFit says of them.                          *)
LEMMA FitTogether == TInv /\ SumsFit => AllocationsFit
<1> SUFFICES ASSUME TInv, SumsFit PROVE AllocationsFit
  OBVIOUS
<1>1. NothingAllocatedTwice
  BY DEF SumsFit, LinesFit, OnlyStanding, VouchersFit, NothingAllocatedTwice
<1>2. SettlementsAreWhole
  BY DEF SumsFit, PaymentsSettle, Settles, SettlementsAreWhole
<1>3. CandidatesCanBeAllocated
  <2> SUFFICES ASSUME NEW t \in DOMAIN bt, NEW v \in Candidates(t)
               PROVE  /\ Open(Bank(t), v) > 0
                      /\ v \in Exact(t) => Open(Bank(t), v) >= Size(Amount(t)) - Tolerance
    BY DEF CandidatesCanBeAllocated, Exact
  <2>1. /\ Remaining(Bank(t), v) > 0 /\ Open(Bank(t), v) >= Remaining(Bank(t), v)
        /\ Remaining(Bank(t), v) \in Int /\ Open(Bank(t), v) \in Int
    BY CandidatesAreOpen
  <2>2. Size(Amount(t)) \in Int /\ Tolerance \in Int
    BY Cells, LinesAssumption DEF TInv
  <2>3. v \in Exact(t) => Size(Remaining(Bank(t), v) - Size(Amount(t))) <= Tolerance
    BY DEF Exact
  <2>4. v \in Exact(t) => Remaining(Bank(t), v) >= Size(Amount(t)) - Tolerance
    <3> PICK r, a : r = Remaining(Bank(t), v) /\ a = Size(Amount(t))
      OBVIOUS
    <3>1. r \in Int /\ a \in Int /\ (v \in Exact(t) => Size(r - a) <= Tolerance)
      BY <2>1, <2>2, <2>3
    <3>2. Size(r - a) <= Tolerance => r >= a - Tolerance
      BY <2>2, <3>1 DEF Size
    <3> QED BY <3>1, <3>2
  <2> QED BY <2>1, <2>2, <2>4
<1> QED BY <1>1, <1>2, <1>3 DEF SumsFit, AllocationsFit

(* Nothing is allocated twice on either side, invoices owe what their      *)
(* standing payments left, settlements are whole, and what is offered for  *)
(* a line can be allocated to it, whatever order stale lists, partial      *)
(* matches, settlements and cancellations come in (match.py reconcile and  *)
(* candidates_for, settle.py settle).                                      *)
THEOREM AllocationsAlwaysFit == Spec => []AllocationsFit
<1>1. Init => TInv /\ SumsFit
  BY InitTInv, InitFits
<1>2. TInv /\ SumsFit /\ [Next]_vars => (TInv /\ SumsFit)'
  BY StepTInv, StepFits
<1> QED BY <1>1, <1>2, FitTogether, PTL DEF Spec
=============================================================================
