------------------------------- MODULE Intake -------------------------------
(***************************************************************************)
(* One submission at the entry point (api/surface.py, guards/ingress.py):  *)
(* the middleware that refuses before the body is read, the claim, the     *)
(* checks over every document, and the run it is let in as.                *)
(*                                                                         *)
(* A document is what the checks can tell of it: its declared type, its    *)
(* size, whether a reader takes it (its form), and how many pages it has   *)
(* or how many bytes it expands to (its extent).                           *)
(***************************************************************************)
EXTENDS Integers, SequencesExt

CONSTANTS Documents,          \* the documents a caller may send
          MaxDocuments,       \* bound: how many at once
          MediaTypes,         \* the types configured as taken
          MaxSubmission,      \* bytes a submission may declare
          MaxBytes,           \* bytes of a document
          MaxPages,           \* pages of a PDF
          MaxRatio            \* how far an archive may expand

ASSUME LimitsAssumption ==
  {MaxDocuments, MaxSubmission, MaxBytes, MaxPages, MaxRatio} \subseteq Nat

\* Only a PDF has pages that may be unreadable.
Forms(type) ==
  {"plain", "unreadable", "encrypted"} \union (IF type = "pdf" THEN {"unreadable pages"} ELSE {})

ASSUME DocumentsAssumption ==
  \A document \in Documents : /\ document.size \in Nat /\ document.extent \in Nat
                             /\ document.form \in Forms(document.type)

VARIABLES submission,  \* what the caller sends
          pc,          \* how far it has got
          bodyRead,    \* whether the body was read
          verdicts,    \* what each document was answered
          answer       \* the answer: a run, or what it was refused for

intakeVars == <<submission, pc, bodyRead, verdicts, answer>>

Undeclared == -1
Declared == {Undeclared, MaxSubmission, MaxSubmission + 1}

Submissions ==
  [withinBurst : BOOLEAN, declared : Declared, claim : {"valid", "invalid"},
   documents : SeqOf(Documents, MaxDocuments)]

Passed(check) == [check |-> check, passed |-> TRUE]
Refused(check) == [check |-> check, passed |-> FALSE]
Verdict(check, holds) == IF holds THEN Passed(check) ELSE Refused(check)

AllPassed(found) == \A i \in 1..Len(found) : found[i].passed

-----------------------------------------------------------------------------
\* The ingress checks.  read_bounded reads one byte past the ceiling, no more.
SizeRead(document) == IF document.size > MaxBytes THEN MaxBytes + 1 ELSE document.size

Size(document) == <<Verdict("size", SizeRead(document) <= MaxBytes)>>

MediaType(document) == <<Verdict("media_type", document.type \in MediaTypes)>>

\* _pdf: structure, encryption and pages, from one read.
Pdf(document) ==
  CASE document.form = "unreadable" -> <<Refused("structure")>>
    [] document.form = "encrypted" -> <<Passed("structure"), Refused("encryption")>>
    [] document.form = "unreadable pages" -> <<Passed("structure"), Refused("structure")>>
    [] document.form = "plain" ->
         <<Passed("structure"), Passed("encryption"),
           IF document.extent < 1
           THEN Refused("structure")
           ELSE Verdict("page_count", document.extent <= MaxPages)>>

\* _archive: structure, encryption and expansion, from the directory alone.
Archive(document) ==
  LET itsSize == IF SizeRead(document) < 1 THEN 1 ELSE SizeRead(document)
  IN  CASE document.form = "unreadable" -> <<Refused("structure")>>
        [] document.form = "encrypted" -> <<Passed("structure"), Refused("encryption")>>
        [] OTHER -> <<Passed("structure"), Passed("encryption"),
                      Verdict("archive", document.extent <= MaxRatio * itsSize)>>

\* _STEPS: the checks each type is asked, in order; none for any other type.
StepsFor(document) ==
  CASE document.type = "pdf" -> <<Size(document), MediaType(document), Pdf(document)>>
    [] document.type = "zip" -> <<Size(document), MediaType(document), Archive(document)>>
    [] OTHER -> <<>>

\* What one step more adds, if none before it refused.
Then(found, step) == IF AllPassed(found) THEN found \o step ELSE found

\* _screened: step by step, until one refuses; no step at all is a refusal.
\* Mutant: every step is asked, whatever the one before it found.
ScreenedThroughout(document) ==
  LET found == StepsFor(document)
  IN  IF found = <<>> THEN <<Refused("media_type")>> ELSE FlattenSeq(found)

Screened(document) ==
  LET steps == StepsFor(document)
  IN  IF steps = <<>>
      THEN <<Refused("media_type")>>
      ELSE Then(Then(steps[1], steps[2]), steps[3])

\* screen, and first_refusal: the first document refused, and its refused check.
\* Mutant: the last one refused.
Screen(documents) == [i \in 1..Len(documents) |-> Screened(documents[i])]

RefusedAt(found) == {i \in 1..Len(found) : ~AllPassed(found[i])}

LastRefusal(found) ==
  LET i == Max(RefusedAt(found))
      j == Min({k \in 1..Len(found[i]) : ~found[i][k].passed})
  IN  <<i, found[i][j].check>>

FirstRefusal(found) ==
  LET i == Min(RefusedAt(found))
      j == Min({k \in 1..Len(found[i]) : ~found[i][k].passed})
  IN  <<i, found[i][j].check>>

\* REFUSALS: the status each check is refused with.
Status(check) ==
  CASE check = "rate_limit" -> 429
    [] check = "size" -> 413
    [] check = "media_type" -> 415
    [] OTHER -> 422

\* declared_size: what the transport does not declare cannot be refused here.
DeclaredSize(length) == Verdict("size", length = Undeclared \/ length <= MaxSubmission)

-----------------------------------------------------------------------------
IntakeInit ==
  /\ submission \in Submissions
  /\ pc = "arrived"
  /\ bodyRead = FALSE
  /\ verdicts = <<>>
  /\ answer = [status |-> 0]

Refuse(check, document) ==
  /\ pc' = "answered"
  /\ answer' = [status |-> Status(check), check |-> check, document |-> document]

\* screen_submissions: the rate limit, then the length the request declares.
ScreenSubmission ==
  /\ pc = "arrived"
  /\ IF ~submission.withinBurst
     THEN Refuse("rate_limit", 0)
     ELSE IF ~DeclaredSize(submission.declared).passed
          THEN Refuse("size", 0)
          ELSE pc' = "admitted" /\ UNCHANGED answer
  /\ UNCHANGED <<submission, bodyRead, verdicts>>

\* The framework reads the body, and submit_claim parses the claim.
TakeClaim ==
  /\ pc = "admitted"
  /\ bodyRead' = TRUE
  /\ IF submission.claim = "invalid"
     THEN pc' = "answered" /\ answer' = [status |-> 422, check |-> "claim", document |-> 0]
     ELSE pc' = "parsed" /\ UNCHANGED answer
  /\ UNCHANGED <<submission, verdicts>>

\* submit_claim screens every document, and refuses the first refused.
\* Mutant: the documents are screened until one passes.
ScreenDocumentsUnlessOnePasses ==
  /\ pc = "parsed"
  /\ verdicts' = Screen(submission.documents)
  /\ IF verdicts' # <<>> /\ RefusedAt(verdicts') = 1..Len(verdicts')
     THEN Refuse(FirstRefusal(verdicts')[2], FirstRefusal(verdicts')[1])
     ELSE pc' = "answered" /\ answer' = [status |-> 201]
  /\ UNCHANGED <<submission, bodyRead>>

ScreenDocuments ==
  /\ pc = "parsed"
  /\ verdicts' = Screen(submission.documents)
  /\ IF RefusedAt(verdicts') # {}
     THEN Refuse(FirstRefusal(verdicts')[2], FirstRefusal(verdicts')[1])
     ELSE pc' = "answered" /\ answer' = [status |-> 201]
  /\ UNCHANGED <<submission, bodyRead>>

IntakeNext == ScreenSubmission \/ TakeClaim \/ ScreenDocuments

IntakeSpec == IntakeInit /\ [][IntakeNext]_intakeVars

-----------------------------------------------------------------------------
\* What each limit says of a document, without saying how it is found out.
Fits(document) == document.size <= MaxBytes
Taken(document) == document.type \in MediaTypes \intersect {"pdf", "zip"}
Readable(document) ==
  /\ document.form \notin {"unreadable", "unreadable pages"}
  /\ document.type = "pdf" => document.extent > 0 \/ document.form = "encrypted"
Bounded(document) ==
  IF document.type = "pdf"
  THEN document.extent <= MaxPages
  ELSE document.extent <= MaxRatio * Max({document.size, 1})

Acceptable(document) ==
  Fits(document) /\ Taken(document) /\ Readable(document)
    /\ document.form # "encrypted" /\ Bounded(document)

LetIn == answer.status = 201

\* The evidence a document let in has: a passed verdict of every check its type has.
Evidence(document) ==
  [i \in 1..5 |-> Passed(<<"size", "media_type", "structure", "encryption",
                          IF document.type = "pdf" THEN "page_count" ELSE "archive">>[i])]

\* A submission becomes a run exactly if nothing about it is over a limit: each
\* check refuses what it should, none refuses what another allows, and no order
\* of documents lets a bad one in; and the run carries to the audit log, for every
\* document in order, the evidence of every check (docs/adr/0007).
LetInExactlyTheAcceptable ==
  pc = "answered" =>
    /\ LetIn <=> /\ submission.withinBurst
                 /\ submission.declared <= MaxSubmission
                 /\ submission.claim = "valid"
                 /\ \A i \in 1..Len(submission.documents) : Acceptable(submission.documents[i])
    /\ LetIn => verdicts = [i \in 1..Len(submission.documents) |-> Evidence(submission.documents[i])]

\* No decoder sees a document that is over the ceiling, or of a type not taken:
\* its content would be cut short, or not its to read (docs/adr/0007).
Decoded(found) == \E i \in 1..Len(found) : found[i].check \notin {"size", "media_type"}

DecodedOnlyIfTaken ==
  \A i \in 1..Len(verdicts) :
    Decoded(verdicts[i]) => Fits(submission.documents[i]) /\ Taken(submission.documents[i])

\* A refusal names the first document at fault, and its documents' evidence ends
\* with the check named; a refusal by the middleware never read the body.
RefusalNamesTheFault ==
  pc = "answered" /\ ~LetIn =>
    IF answer.document = 0
    THEN answer.check \in {"rate_limit", "size"} => ~bodyRead
    ELSE /\ \A i \in 1..answer.document - 1 : Acceptable(submission.documents[i])
         /\ ~Acceptable(submission.documents[answer.document])
         /\ Last(verdicts[answer.document]) = Refused(answer.check)
=============================================================================
