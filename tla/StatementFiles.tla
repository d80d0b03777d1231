----------------------------- MODULE StatementFiles -----------------------------
(***************************************************************************)
(* A statement file from its arrival to its lines.  The import job reads   *)
(* the file through the layout of its format once that layout is cleared   *)
(* for the company; until then the format's mapping is read from the file, *)
(* or asked column by column, and put to the accountant, whose acceptance  *)
(* sends the waiting file through the import again.                        *)
(*                                                                         *)
(* Handlers are atomic, except for the import job that has to have a file  *)
(* read: it looks at the tables when it starts and writes when the model   *)
(* has answered, and anything may happen in between.  Its save compares    *)
(* the time the layout row was last modified; an acceptance, a row of its  *)
(* own, leaves that time alone.                                            *)
(***************************************************************************)
EXTENDS StatementRows

CONSTANTS
  Files,        \* bank statement documents
  Chats,        \* one person each
  Companies,
  Formats,      \* header signatures, each with its layout row
  Mappings,     \* the mappings that are read or answered
  TrueMapping,  \* the one that says what the bank means
  CompanyOf,    \* [Files -> Companies]: active when the file was sent
  SenderOf,     \* [Files -> Chats]
  FormatOf,     \* [Files -> Formats]
  RowsOf,       \* [Files -> sequences of rows]
  Keeps,        \* [Chats -> SUBSET Companies]: whose books a chat keeps
  Linked,       \* [Chats -> SUBSET Companies]
  Breaks,       \* whether jobs may end in an exception
  Nothing

ASSUME FilesAssumption ==
  /\ CompanyOf \in [Files -> Companies]
  /\ SenderOf \in [Files -> Chats]
  /\ FormatOf \in [Files -> Formats]
  /\ Keeps \in [Chats -> SUBSET Companies]
  /\ Linked \in [Chats -> SUBSET Companies]
  /\ Breaks \in BOOLEAN
  /\ Nothing \notin Mappings \cup Files

VARIABLES
  file,         \* status of the documents: unsent, received, extracted, failed
  job,          \* the import job of a file: none, queued, or what it saw
  layout,       \* the layout row of each format: its mapping, or Nothing
  verified,     \* formats whose row the site has verified
  acceptances,  \* Nyabo Rule Acceptance rows of layouts
  blocks,       \* rule_blocked events that name a file, oldest first
  cards,        \* questions whose buttons are on a screen
  talk,         \* the file each chat is asked the columns of, or Nothing
  active        \* the active company of each chat

filesVars == <<file, job, layout, verified, acceptances, blocks, cards, talk, active>>

(* read_layout: the readings of each file that the file bears out, be they *)
(* guessed from its headers or read by the model.                          *)
Readings == [f \in Files |-> {m \in Mappings : BearsOut(RowsOf[f], m)}]

(* The readings that can be compared with the balance and still differ     *)
(* from what the bank means.                                               *)
Misread ==
  [f \in Files |->
     {m \in Mappings :
        /\ Applicable(m) /\ Compared(RowsOf[f], m) # {}
        /\ \E i \in LinesOf(RowsOf[f], m) :
             AmountOf(RowsOf[f][i], m) # AmountOf(RowsOf[f][i], TrueMapping)}]

(* What a reading job saw of the layout row: its mapping, whether it was   *)
(* signed off, and when it was not, whether nobody has written it since.   *)
NoJob == [phase |-> "none", row |-> Nothing, signed |-> FALSE, current |-> FALSE]

-----------------------------------------------------------------------------
Covers(a, company, f) ==
  a.company = company /\ a.format = f /\ a.mapping = layout[f]

AcceptedFor(company, f) == \E a \in acceptances : Covers(a, company, f)

(* usable_layouts: a layout the site has verified, or one this company has *)
(* accepted as it reads.                                                   *)
Usable(company, f) == layout[f] # Nothing /\ (f \in verified \/ AcceptedFor(company, f))

(* Signed off by anybody, whatever the row said then.                      *)
SignedOff(f) == f \in verified \/ \E a \in acceptances : a.format = f

(* The row of format fmt is written: its modified time moves on, and the   *)
(* jobs that have read it hold an old one.                                 *)
Outdated(fmt) ==
  [f \in Files |->
     IF FormatOf[f] = fmt /\ job[f].current THEN [job[f] EXCEPT !.current = FALSE] ELSE job[f]]

Block(c, company, f) == [chat |-> c, company |-> company, file |-> f]

(* record_block: an event of the last quarter of an hour is not repeated,  *)
(* an older one is.                                                        *)
Remembered(b) ==
  LET known == {i \in DOMAIN blocks : blocks[i] = b}
      Again(i) == Append(SubSeq(blocks, 1, i - 1) \o SubSeq(blocks, i + 1, Len(blocks)), b)
  IN IF known = {} THEN {Append(blocks, b)} ELSE {blocks} \cup {Again(i) : i \in known}

Newest(S) == {blocks[i].file : i \in {i \in S : \A j \in S : j <= i}}

(* blocked_document: the tapper's own newest refusal.                      *)
OwnBlocks(c, company, f) ==
  {i \in DOMAIN blocks : /\ blocks[i].chat = c
                         /\ blocks[i].company = company
                         /\ FormatOf[blocks[i].file] = f}

(* waiting_statement: the company's newest file that is still unread.      *)
UnreadBlocks(company, f) ==
  {i \in DOMAIN blocks : /\ blocks[i].company = company
                         /\ FormatOf[blocks[i].file] = f
                         /\ file[blocks[i].file] = "received"}

(* Mutant: only the tapper's own refusal of the last quarter of an hour.   *)
ComesBack_OwnOnly(c, company, f) == {Newest(OwnBlocks(c, company, f)), {}}

(* The files a confirmed layout sends through the import again: the own    *)
(* one, and when its quarter of an hour is over, the company's.            *)
ComesBack(c, company, f) ==
  IF OwnBlocks(c, company, f) = {} THEN {Newest(UnreadBlocks(company, f))}
  ELSE {Newest(OwnBlocks(c, company, f)), Newest(UnreadBlocks(company, f))}

Question(kind, c, company, f, shown) ==
  [kind |-> kind, chat |-> c, company |-> company, file |-> f, shown |-> shown]

(* store_layout: what the row of format f says afterwards, and the jobs;   *)
(* signed is whether the writer saw it signed off.                         *)
Stored(f, m, signed) == IF signed THEN layout[f] ELSE m
Written(f, signed) == IF signed THEN job ELSE Outdated(f)

-----------------------------------------------------------------------------
FilesInit ==
  /\ file = [f \in Files |-> "unsent"]
  /\ job = [f \in Files |-> NoJob]
  /\ layout = [f \in Formats |-> Nothing]
  /\ verified = {}
  /\ acceptances = {}
  /\ blocks = <<>>
  /\ cards = {}
  /\ talk = [c \in Chats |-> Nothing]
  /\ active \in [Chats -> Companies]
  /\ \A c \in Chats : active[c] \in Linked[c]

Queued == [NoJob EXCEPT !.phase = "queued"]

(* A file is sent, for the active company.  The same file again is refused *)
(* by its hash and changes nothing.                                        *)
Send(f) ==
  /\ file[f] = "unsent"
  /\ active[SenderOf[f]] = CompanyOf[f]
  /\ file' = [file EXCEPT ![f] = "received"]
  /\ job' = [job EXCEPT ![f] = Queued]
  /\ UNCHANGED <<layout, verified, acceptances, blocks, cards, talk, active>>

(* detect: the mapping the import trusts.                                  *)
ReadsThrough(f) == Usable(CompanyOf[f], FormatOf[f])

(* import_statement through a trusted layout.  A file that yields no line, *)
(* or no bank account of the company, is failed.                           *)
Imports(f) ==
  /\ job[f].phase = "queued"
  /\ ReadsThrough(f)
  /\ \E outcome \in {"extracted", "failed"} :
       /\ outcome = "extracted" =>
            Applicable(layout[FormatOf[f]]) /\ LinesOf(RowsOf[f], layout[FormatOf[f]]) # {}
       /\ file' = [file EXCEPT ![f] = outcome]
  /\ job' = [job EXCEPT ![f] = NoJob]
  /\ UNCHANGED <<layout, verified, acceptances, blocks, cards, talk, active>>

(* A file no parser opens is failed.                                       *)
Unreadable(f) ==
  /\ job[f].phase = "queued"
  /\ file' = [file EXCEPT ![f] = "failed"]
  /\ job' = [job EXCEPT ![f] = NoJob]
  /\ UNCHANGED <<layout, verified, acceptances, blocks, cards, talk, active>>

(* No layout can be trusted: the job goes on to have the file read, with   *)
(* the tables as they are now.                                             *)
AsksForAReading(f) ==
  /\ job[f].phase = "queued"
  /\ ~ReadsThrough(f)
  /\ job' = [job EXCEPT ![f] =
               [phase |-> "reading", row |-> layout[FormatOf[f]],
                signed |-> SignedOff(FormatOf[f]), current |-> ~SignedOff(FormatOf[f])]]
  /\ UNCHANGED <<file, layout, verified, acceptances, blocks, cards, talk, active>>

(* Mutant: the save does not compare the row's modified time.              *)
OffersReading_Blindly(f, m) ==
  LET fmt == FormatOf[f] IN
  /\ job[f].phase = "reading"
  /\ m \in Readings[f]
  /\ layout' = [layout EXCEPT ![fmt] = Stored(fmt, m, job[f].signed)]
  /\ blocks' \in Remembered(Block(SenderOf[f], CompanyOf[f], f))
  /\ cards' = cards \cup {Question("reading", SenderOf[f], CompanyOf[f], f, m)}
  /\ job' = [Written(fmt, job[f].signed) EXCEPT ![f] = NoJob]
  /\ UNCHANGED <<file, verified, acceptances, talk, active>>

(* offer_reading: a reading the file bears out is stored and shown.  The   *)
(* save fails, and the job with it, when the row was written meanwhile; a  *)
(* row that was signed off is not saved at all.                            *)
OffersReading(f, m) ==
  LET fmt == FormatOf[f] IN
  /\ job[f].phase = "reading"
  /\ m \in Readings[f]
  /\ job[f].signed \/ job[f].current
  /\ layout' = [layout EXCEPT ![fmt] = Stored(fmt, m, job[f].signed)]
  /\ blocks' \in Remembered(Block(SenderOf[f], CompanyOf[f], f))
  /\ cards' = cards \cup {Question("reading", SenderOf[f], CompanyOf[f], f, m)}
  /\ job' = [Written(fmt, job[f].signed) EXCEPT ![f] = NoJob]
  /\ UNCHANGED <<file, verified, acceptances, talk, active>>

(* No reading, and the format has a mapping nobody confirmed: the question *)
(* is put about the mapping as it stands.                                  *)
AsksAboutStored(f) ==
  /\ job[f].phase = "reading"
  /\ job[f].row # Nothing
  /\ blocks' \in Remembered(Block(SenderOf[f], CompanyOf[f], f))
  /\ cards' = cards \cup {Question("stored", SenderOf[f], CompanyOf[f], f, job[f].row)}
  /\ job' = [job EXCEPT ![f] = NoJob]
  /\ UNCHANGED <<file, layout, verified, acceptances, talk, active>>

(* No reading and no row: the column questions open in the sender's chat,  *)
(* over whatever it was doing, unless the file has fewer than two columns. *)
AsksForColumns(f) ==
  /\ job[f].phase = "reading"
  /\ job[f].row = Nothing
  /\ \/ talk' = [talk EXCEPT ![SenderOf[f]] = f]
     \/ UNCHANGED talk
  /\ job' = [job EXCEPT ![f] = NoJob]
  /\ UNCHANGED <<file, layout, verified, acceptances, blocks, cards, active>>

(* The job ends in an exception; what it wrote is rolled back or was       *)
(* nothing, the file stays as it was.                                      *)
JobBreaks(f) ==
  /\ Breaks
  /\ job[f] # NoJob
  /\ job' = [job EXCEPT ![f] = NoJob]
  /\ UNCHANGED <<file, layout, verified, acceptances, blocks, cards, talk, active>>

-----------------------------------------------------------------------------
KeepsActive(c) == active[c] \in Keeps[c]

(* save_layout: the row is written, and the same person asked to confirm    *)
(* it, for the company that is active now; a mapping without a narrative   *)
(* column is refused by the row itself.                                    *)
SavesLayout(c, f, m) ==
  LET fmt == FormatOf[f] IN
  IF Applicable(m) \/ SignedOff(fmt)
  THEN /\ layout' = [layout EXCEPT ![fmt] = Stored(fmt, m, SignedOff(fmt))]
       /\ job' = Written(fmt, SignedOff(fmt))
       /\ blocks' \in Remembered(Block(c, active[c], f))
       /\ cards' = cards \cup {Question("stored", c, active[c], f, m)}
  ELSE UNCHANGED <<layout, job, blocks, cards>>

(* The last column is answered (the answers before it only move the        *)
(* conversation on).  What cannot be imported keeps the last question      *)
(* open; the rest closes the conversation before anything is saved.        *)
AnswersColumns(c, m) ==
  /\ talk[c] # Nothing
  /\ KeepsActive(c)
  /\ Importable(m)
  /\ talk' = [talk EXCEPT ![c] = Nothing]
  /\ SavesLayout(c, talk[c], m)
  /\ UNCHANGED <<file, verified, acceptances, active>>

(* Cancel: nothing was imported, and the file stays.                       *)
Cancels(c) ==
  /\ talk[c] # Nothing
  /\ talk' = [talk EXCEPT ![c] = Nothing]
  /\ UNCHANGED <<file, job, layout, verified, acceptances, blocks, cards, active>>

(* [Fix] under a reading: its buttons go, the column questions open.       *)
Fix(k) ==
  LET c == k.chat IN
  /\ k.kind = "reading"
  /\ KeepsActive(c)
  /\ cards' = cards \ {k}
  /\ talk' = [talk EXCEPT ![c] = k.file]
  /\ UNCHANGED <<file, job, layout, verified, acceptances, blocks, active>>

(* The row as it reads now is accepted for a company, and a file comes     *)
(* back.  Once it is accepted, the next tap is answered and nothing else   *)
(* happens.                                                                *)
Accepts(c, company, fmt) ==
  /\ company \in Keeps[c]
  /\ layout[fmt] # Nothing
  /\ ~AcceptedFor(company, fmt)
  /\ acceptances' = acceptances \cup
       {[company |-> company, format |-> fmt, mapping |-> layout[fmt]]}
  /\ \E again \in ComesBack(c, company, fmt) :
       job' = [f \in Files |-> IF f \in again /\ job[f] = NoJob THEN Queued ELSE job[f]]
  /\ UNCHANGED <<file, layout, verified, blocks, talk, active>>

(* [Applies to our company] under a card, for the company on the card.     *)
Accept(k) ==
  /\ Accepts(k.chat, k.company, FormatOf[k.file])
  /\ cards' = cards \ {k}

(* The same in the list of rules, for the active company.                  *)
AcceptFromList(c, fmt) ==
  /\ Accepts(c, active[c], fmt)
  /\ UNCHANGED cards

Leave(k) ==
  /\ Keeps[k.chat] # {}
  /\ cards' = cards \ {k}
  /\ UNCHANGED <<file, job, layout, verified, acceptances, blocks, talk, active>>

(* A site admin verifies a row, the desk corrects one.                     *)
Verify(f) ==
  /\ layout[f] # Nothing
  /\ f \notin verified
  /\ verified' = verified \cup {f}
  /\ job' = Outdated(f)
  /\ UNCHANGED <<file, layout, acceptances, blocks, cards, talk, active>>

DeskEdit(f, m) ==
  /\ layout[f] # Nothing
  /\ Applicable(m)
  /\ layout' = [layout EXCEPT ![f] = m]
  /\ job' = Outdated(f)
  /\ UNCHANGED <<file, verified, acceptances, blocks, cards, talk, active>>

SwitchCompany(c, company) ==
  /\ company \in Linked[c] \ {active[c]}
  /\ active' = [active EXCEPT ![c] = company]
  /\ UNCHANGED <<file, job, layout, verified, acceptances, blocks, cards, talk>>

FilesNext ==
  \/ \E f \in Files :
       \/ Send(f) \/ Imports(f) \/ Unreadable(f) \/ AsksForAReading(f)
       \/ \E m \in Mappings : OffersReading(f, m)
       \/ AsksAboutStored(f) \/ AsksForColumns(f) \/ JobBreaks(f)
  \/ \E c \in Chats :
       \/ \E m \in Mappings : AnswersColumns(c, m)
       \/ Cancels(c)
       \/ \E fmt \in Formats : AcceptFromList(c, fmt)
       \/ \E company \in Companies : SwitchCompany(c, company)
  \/ \E k \in cards : Fix(k) \/ Accept(k) \/ Leave(k)
  \/ \E f \in Formats : Verify(f) \/ \E m \in Mappings : DeskEdit(f, m)

FilesSpec == FilesInit /\ [][FilesNext]_filesVars

-----------------------------------------------------------------------------
(* Every row has its shape; a job that reads saw a row that was there, and  *)
(* no refusal is on the log twice.                                         *)
FilesTypeOK ==
  /\ file \in [Files -> {"unsent", "received", "extracted", "failed"}]
  /\ job \in [Files -> [phase : {"none", "queued", "reading"},
                        row : Mappings \cup {Nothing}, signed : BOOLEAN, current : BOOLEAN]]
  /\ \A f \in Files : /\ job[f].signed => job[f].row # Nothing
                      /\ job[f].phase # "none" => file[f] # "unsent"
  /\ layout \in [Formats -> {m \in Mappings : Applicable(m)} \cup {Nothing}]
  /\ \A f \in Formats : SignedOff(f) => layout[f] # Nothing
  /\ acceptances \subseteq [company : Companies, format : Formats, mapping : Mappings]
  /\ \A i, j \in DOMAIN blocks : blocks[i] = blocks[j] => i = j
  /\ \A c \in Chats : active[c] \in Linked[c]

(* What a person signed off is not rewritten under the signature.  The      *)
(* column questions change a mapping only while nobody has verified or     *)
(* accepted it; a reading that was asked for before may still replace one  *)
(* that was accepted meanwhile, never one that was verified meanwhile, and *)
(* what it puts there is used for no company until somebody has said so.   *)
(* (store_layout, and the modified time that its save compares.)           *)
RewritesAreAskedAbout ==
  [][\A f \in Formats :
       LET byReading == \E g \in Files : /\ FormatOf[g] = f
                                         /\ job[g].phase = "reading" /\ job'[g].phase = "none"
           byPerson == talk' # talk
       IN layout'[f] # layout[f] /\ (byReading \/ byPerson) =>
            /\ f \notin verified
            /\ byPerson => ~SignedOff(f)
            /\ \A company \in Companies : ~Usable(company, f)']_filesVars

(* An acceptance is no dead end: as long as a file that the mapping held up *)
(* for this company is unread, the tap sends a file of the format through  *)
(* the import, and nobody is told to send it again, which the hash of the  *)
(* file would refuse.  (_finish_the_blocked_tap, waiting_statement.)       *)
AcceptanceFindsAFile ==
  [][\A a \in acceptances' \ acceptances :
       UnreadBlocks(a.company, a.format) # {} =>
         \E f \in Files : FormatOf[f] = a.format /\ job'[f].phase # "none"]_filesVars

(* A reading that exchanges money in and money out never reaches a card    *)
(* when the file has a running balance to contradict it: the figures of a  *)
(* reading that maps the balance are those of TrueMapping, on every line.  *)
(* (check_layout.)                                                         *)
SwapsAreCaught == \A k \in cards : k.kind = "reading" => k.shown \notin Misread[k.file]

(* What a card asks about is the company whose file is waiting.            *)
CardsNameTheFilesCompany == \A k \in cards : k.company = CompanyOf[k.file]
=============================================================================
