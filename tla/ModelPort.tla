------------------------------ MODULE ModelPort -----------------------------
(***************************************************************************)
(* The model behind its port (model/port.py, select.py): the replay        *)
(* adapter over a directory of fixtures that people edit while adapters    *)
(* live (replay.py), and the provider adapter over an endpoint that may    *)
(* answer anything (provider.py).                                          *)
(*                                                                         *)
(* A call is what it asks, task and content together, and the schema its   *)
(* answer has to fit.  An answer is the schemas it fits.  The digest is    *)
(* symbolic: no two calls have one fingerprint.                            *)
(***************************************************************************)
EXTENDS Naturals, FiniteSetsExt, Functions

CONSTANTS Asks,     \* what a call may ask, and of which content
          Schemas,  \* the shapes an answer may be asked for in
          Answers,  \* what may be answered: records of a text and the schemas it fits
          Names     \* the fixture files' names, in the order they are read: 1..n

VARIABLES directory,  \* name -> the file there
          adapter,    \* the adapter a stage holds
          told        \* the last a stage was told, by what adapter, for which call

vars == <<directory, adapter, told>>

Calls == [asks : Asks, schema : Schemas]

\* A file: none, a fixture, JSON that is none or no JSON, or no text at all.
Fixtures == [is : {"fixture"}, call : Calls, answer : Answers]
NoCall == [asks |-> "nothing", schema |-> "nothing"]
NoAnswer == [text |-> "nothing", fits |-> {}]
File(is) == [is |-> is, call |-> NoCall, answer |-> NoAnswer]
Files == Fixtures \union {File("none"), File("malformed"), File("undecodable")}

\* call_fingerprint.
Fingerprint(call) == call

\* How a call ends: with an answer, or an exception.
Ending(is) == [is |-> is, answer |-> NoAnswer]
Answered(answer) == [is |-> "answer", answer |-> answer]

Adapter(is) == [is |-> is, recorded |-> << >>, fixtures |-> {}]
NothingTold == [by |-> "nobody", call |-> NoCall, fixtures |-> {}, ending |-> Ending("nothing")]

Init ==
  /\ directory = [name \in Names |-> File("none")]
  /\ adapter = Adapter("none")
  /\ told = NothingTold

-----------------------------------------------------------------------------
\* A fixture is written, edited, renamed or removed under the adapters.
Edit ==
  /\ \E name \in Names, file \in Files :
       directory[name] # file /\ directory' = [directory EXCEPT ![name] = file]
  /\ UNCHANGED <<adapter, told>>

There == {name \in Names : directory[name].is # "none"}

\* _read, in the order of the names: the first that is no fixture, or records a call
\* that was recorded, is the end of it.  Mutant: the later file replaces the earlier.
FaultyUnlessFixture(name) == directory[name].is # "fixture"

Faulty(name) ==
  \/ directory[name].is # "fixture"
  \/ \E other \in There :
       other < name /\ Fingerprint(directory[other].call) = Fingerprint(directory[name].call)

Recorded ==
  [print \in {Fingerprint(directory[name].call) : name \in There} |->
     LET at == Max({name \in There : Fingerprint(directory[name].call) = print})
     IN  directory[at].answer]

\* model_from with replay: the directory is read once, and an adapter made or not; a
\* directory without a fixture may be none.
BuildReplay ==
  /\ \/ There = {} /\ adapter' = Adapter("LookupError")
     \/ LET faulty == {name \in There : Faulty(name)}
        IN  adapter' = IF faulty = {}
                       THEN [is |-> "replay", recorded |-> Recorded,
                             fixtures |-> {directory[name] : name \in There}]
                       ELSE IF directory[Min(faulty)].is = "undecodable"
                            THEN Adapter("UnicodeDecodeError")
                            ELSE Adapter("UnusableFixture")
  /\ UNCHANGED <<directory, told>>

\* model_from with a provider: an endpoint and a model have to be named.
BuildProvider ==
  /\ \E named \in BOOLEAN : adapter' = Adapter(IF named THEN "provider" ELSE "LookupError")
  /\ UNCHANGED <<directory, told>>

\* An answer is validated against the schema asked for, whoever gave it.
Validated(answer, schema, misfit) ==
  IF schema \in answer.fits THEN Answered(answer) ELSE Ending(misfit)

Replayed(call) ==
  IF Fingerprint(call) \in DOMAIN adapter.recorded
  THEN Validated(adapter.recorded[Fingerprint(call)], call.schema, "UnusableFixture")
  ELSE Ending("NoFixture")

AskReplay ==
  /\ adapter.is = "replay"
  /\ \E call \in Calls :
       told' = [by |-> "replay", call |-> call, fixtures |-> adapter.fixtures,
                ending |-> Replayed(call)]
  /\ UNCHANGED <<directory, adapter>>

\* What the endpoint does with a call: nothing, an error, a body outside the wire, a
\* completion without an answer, one that is no JSON, or an answer.
Reply(is, answer) == [is |-> is, answer |-> answer]
Replies ==
  {Reply(is, NoAnswer) : is \in {"unreachable", "error", "outside the wire", "no choice", "not JSON"}}
    \union {Reply("answer", answer) : answer \in Answers}

Provided(call, reply) ==
  IF reply.is = "unreachable" THEN Ending("ModelUnavailable")
  ELSE IF reply.is = "error" THEN Ending("ModelRefused")
  ELSE IF reply.is = "answer" THEN Validated(reply.answer, call.schema, "UnusableAnswer")
  ELSE Ending("UnusableAnswer")

AskProvider ==
  /\ adapter.is = "provider"
  /\ \E call \in Calls, reply \in Replies :
       told' = [by |-> "provider", call |-> call, fixtures |-> {}, ending |-> Provided(call, reply)]
  /\ UNCHANGED <<directory, adapter>>

Next == Edit \/ BuildReplay \/ BuildProvider \/ AskReplay \/ AskProvider

Spec == Init /\ [][Next]_vars

-----------------------------------------------------------------------------
\* A stage gets what was recorded for the very call it made: every fixture of the
\* set its adapter was built from that records this call says what it was told, so
\* no file's name, no other call's recording and no edit since can change it
\* (replay.py:3-11), and it fits the schema asked for (port.py:9-12).
AnswersAreTheRecordings ==
  LET recordings == {fixture.answer : fixture \in {f \in told.fixtures : f.call = told.call}}
  IN  /\ told.ending.is = "answer" => told.call.schema \in told.ending.answer.fits
      /\ told.by = "replay" =>
           \/ told.ending.is = "answer" /\ recordings = {told.ending.answer}
           \/ /\ told.ending.is = "UnusableFixture"
              /\ \E answer \in Answers :
                   recordings = {answer} /\ told.call.schema \notin answer.fits
           \/ told.ending.is = "NoFixture" /\ recordings = {}
=============================================================================
