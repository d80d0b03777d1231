------------------------------ MODULE ModelCalls ------------------------------
(***************************************************************************)
(* The calls a job makes to a language model.  A job builds its client     *)
(* from the site config as it is then, routes each call to a model by its  *)
(* purpose, repeats requests that failed in passing, runs the tools the    *)
(* model asks for, and leaves one row of Nyabo LLM Call in its transaction.*)
(*                                                                         *)
(* A provider is one unit of usage per response it delivers; prompts,      *)
(* answers and the schema are left out but for whether the answer fits.    *)
(***************************************************************************)
EXTENDS Integers, Sequences, FiniteSets, SequencesExt

CONSTANTS
  Workers,       \* worker processes
  Models,        \* model ids a config may name
  Configs,       \* site configs: [models: key -> id or None, secrets: providers]
  Founders,      \* [Purposes -> Models \cup {None}]: OPENAI_PURPOSE_MODELS
  DefaultOpenAi, DefaultAnthropic, SweepModel,
  Answering,     \* [Models -> SUBSET ids]: what a model calls itself in a response
  Family,        \* [ids -> Models]: the table entry an id begins with
  Price,         \* [Models -> Nat]: 0 for a model the table does not list
  Refuses,       \* [Models -> SUBSET parameters]: what a model answers 400 to
  Jobs,          \* kinds of job that run
  Uses,          \* the lists of tool names a model may call in one response
  Tools,         \* the tools of a question
  MaxRetries, MaxTurns,
  MaxJobs, MaxCalls, MaxConfigs,    \* bounds of the instance
  None

Purposes == {"extract", "classify", "question", "eval", "other"}

(* PurposeModel.key, and the key behind it.                                *)
PurposeKey(purpose) ==
  CASE purpose = "extract" -> "OPENAI_MODEL_EXTRACT"
    [] purpose = "classify" -> "OPENAI_MODEL_CLASSIFY"
    [] purpose = "question" -> "OPENAI_MODEL_QUESTION"
    [] OTHER -> None

SiteKeys == {"OPENAI_MODEL", "ANTHROPIC_MODEL", "OPENAI_MODEL_EXTRACT",
             "OPENAI_MODEL_CLASSIFY", "OPENAI_MODEL_QUESTION"}

ASSUME CallsAssumption ==
  /\ \A site \in Configs :
       /\ site.models \in [SiteKeys -> Models \cup {None}]
       /\ site.secrets \subseteq {"openai", "anthropic"}
  /\ Founders \in [Purposes -> Models \cup {None}]
  /\ {DefaultOpenAi, DefaultAnthropic, SweepModel} \subseteq Models
  /\ \A m \in Models : Family[m] = m /\ \A id \in Answering[m] : Family[id] = m
  /\ Price \in [Models -> Nat]
  /\ Jobs \subseteq {"receipt", "sweep", "line", "layout", "note", "question"}
  /\ {MaxRetries, MaxJobs, MaxCalls, MaxConfigs} \subseteq Nat
  /\ MaxTurns \in Nat \ {0}
  /\ None \notin Models \cup SiteKeys

(* Uses holds sequences: what a turn calls, in order.                      *)
ASSUME UsesAssumption ==
  \A names \in Uses : Len(names) \in Nat /\ DOMAIN names = 1..Len(names)

VARIABLES
  config,      \* the site config
  changes,     \* how often it was changed
  learned,     \* [Workers -> [Models -> parameters the process knows are refused]]
  job,         \* [Workers -> None or the job it runs]
  jobs, calls, \* how many were begun
  charged,     \* [1..MaxCalls -> Nat]: responses the provider delivered
  log          \* Nyabo LLM Call, as committed

callsVars == <<config, changes, learned, job, jobs, calls, charged, log>>

NothingLearned == [m \in Models |-> {}]

CallsInit ==
  /\ config \in Configs /\ changes = 0
  /\ learned = [w \in Workers |-> NothingLearned]
  /\ job = [w \in Workers |-> None]
  /\ jobs = 0 /\ calls = 0
  /\ charged = [n \in 1..MaxCalls |-> 0]
  /\ log = {}

-----------------------------------------------------------------------------
(* Routing.                                                                *)
FirstSet(ids) == ids[Min({i \in DOMAIN ids : ids[i] # None})]
Known(purpose) == IF purpose \in Purposes THEN purpose ELSE "other"

(* resolve_model: a purpose's own key, the founder's choice for it, then   *)
(* OPENAI_MODEL.  The spare provider has one model for everything.         *)
ResolveModel(site, purpose, provider) ==
  IF provider = "anthropic"
  THEN FirstSet(<<site.models["ANTHROPIC_MODEL"], DefaultAnthropic>>)
  ELSE LET key == PurposeKey(Known(purpose))
       IN FirstSet(<<IF key = None THEN None ELSE site.models[key],
                     Founders[Known(purpose)],
                     site.models["OPENAI_MODEL"], DefaultOpenAi>>)

Adapter(provider) == IF provider = "anthropic" THEN "anthropic" ELSE "openai"

(* get_client: None is MissingSettingError.                                *)
GetClient(site, provider) ==
  IF Adapter(provider) \notin site.secrets THEN None
  ELSE [purpose \in Purposes |-> ResolveModel(site, purpose, provider)]

(* Mutant: only the key everything falls back to is set.                   *)
PinModels_Fallback(site, provider, model) ==
  [site EXCEPT !.models["OPENAI_MODEL"] = model, !.models["ANTHROPIC_MODEL"] = model]

(* pin_models: every purpose of one provider goes to one model.            *)
PinModels(site, provider, model) ==
  [models |-> [key \in SiteKeys |->
                 IF (key = "ANTHROPIC_MODEL") = (provider = "anthropic") THEN model ELSE site.models[key]],
   secrets |-> site.secrets]

(* Settings.from_mapping: the two fallbacks are never unset.               *)
FromMapping(site) ==
  [models |-> [site.models EXCEPT !["OPENAI_MODEL"] = FirstSet(<<@, DefaultOpenAi>>),
                                  !["ANTHROPIC_MODEL"] = FirstSet(<<@, DefaultAnthropic>>)],
   secrets |-> site.secrets]

(* configured_models: what a sweep measures, one model after the other.    *)
ConfiguredModels(site) ==
  {[provider |-> "auto", model |-> ResolveModel(site, purpose, "auto")] : purpose \in Purposes}
    \cup {[provider |-> "auto", model |-> SweepModel]}
    \cup (IF "anthropic" \in site.secrets
          THEN {[provider |-> "anthropic", model |-> site.models["ANTHROPIC_MODEL"]]} ELSE {})

(* PurposeRouter: an unknown purpose has the model of the others.          *)
ClientFor(j, purpose) == GetClient(j.site, j.provider)[Known(purpose)]

-----------------------------------------------------------------------------
(* Jobs: the calls each makes, and what becomes of one whose call failed.  *)
(* A receipt buffers its rows until its proposal has a name, and a sweep   *)
(* of the golden set keeps its own.  A job of lines or of notes makes more *)
(* calls than the two that matter here.                                    *)
Plan(kind) ==
  CASE kind \in {"receipt", "sweep"} -> <<"extract", "classify">>
    [] kind = "line" -> <<"classify", "classify">>
    [] kind = "layout" -> <<"classify">>
    [] kind = "note" -> <<"question", "question">>
    [] kind = "question" -> <<"question">>

Shape(kind) == IF kind = "question" THEN "tools" ELSE "structured"

(* classify_line names what it survives; the courtesies and the runners of *)
(* the golden set survive anything.                                        *)
Survives(kind, class) ==
  \/ kind \in {"layout", "note", "sweep"}
  \/ kind = "line" /\ class # "unexpected"

(* handle_text answers a question that failed with an apology, and commits.*)
Commits(kind) == kind = "question"

HasClient(j) == GetClient(j.site, j.provider) # None

NewJob(kind, provider, site, asked) ==
  [no |-> jobs + 1, kind |-> kind, provider |-> provider, site |-> site,
   asked |-> asked, step |-> 1, call |-> None, buffer |-> {}, rows |-> {}]

(* The site config is read when the job begins, and kept.                  *)
StartJob(w) ==
  /\ job[w] = None /\ jobs < MaxJobs
  /\ jobs' = jobs + 1
  /\ \/ \E kind \in Jobs \ {"sweep"} :
          job' = [job EXCEPT ![w] = NewJob(kind, "auto", FromMapping(config), None)]
     \/ /\ "sweep" \in Jobs
        /\ \E entry \in ConfiguredModels(FromMapping(config)) :
             job' = [job EXCEPT ![w] =
               NewJob("sweep", entry.provider,
                      PinModels(FromMapping(config), entry.provider, entry.model),
                      entry.model)]
  /\ UNCHANGED <<config, changes, learned, calls, charged, log>>

(* Sampling parameters a request carries; only OpenAI is sent any.         *)
Sends(j) ==
  IF Adapter(j.provider) = "anthropic" THEN {}
  ELSE {"max_output_tokens"} \cup
       (IF Shape(j.kind) = "structured" THEN {"temperature"} ELSE {})

Droppable == {"temperature", "top_p"}

(* _create: never what this process knows the model refuses.               *)
Parameters(w, j, model) ==
  IF Adapter(j.provider) = "anthropic" THEN {} ELSE Sends(j) \ learned[w][model]

Request(call, w, j) ==
  [call EXCEPT !.params = Parameters(w, j, call.model), !.attempt = 0, !.dropped = FALSE]

(* What becomes of the call the worker waits for.                          *)
Continue(w, call) == job' = [job EXCEPT ![w] = [@ EXCEPT !.call = call]]

StartCall(w) ==
  \E j \in {job[w]} \ {None} :
    /\ j.call = None /\ HasClient(j) /\ j.step \in DOMAIN Plan(j.kind)
    /\ calls < MaxCalls
    /\ calls' = calls + 1
    /\ \E model \in {ClientFor(j, Plan(j.kind)[j.step])} :
         Continue(w,
           Request([no |-> calls + 1, purpose |-> Plan(j.kind)[j.step],
                    model |-> model, answeredAs |-> model,
                    params |-> {}, attempt |-> 0, dropped |-> FALSE,
                    turn |-> 1, usage |-> 0, transcript |-> <<>>, ran |-> EmptyBag],
                   w, j))
    /\ UNCHANGED <<config, changes, learned, jobs, charged, log>>

-----------------------------------------------------------------------------
(* Rows.                                                                   *)
(* price_for: an id of a dated snapshot has the price of its model.        *)
PriceFor(id) == Price[Family[id]]

Row(j, call, ok) ==
  [call |-> call.no, job |-> j.no,
   purpose |-> IF call.purpose \in Purposes THEN call.purpose ELSE "other",
   model |-> IF ok THEN call.answeredAs ELSE call.model,
   ok |-> ok, usage |-> IF ok THEN call.usage ELSE 0,
   cost |-> IF ok THEN call.usage * PriceFor(call.answeredAs) ELSE 0,
   proposal |-> None]

(* frappe_log.record: a table that refuses the row costs the row only.     *)
Inserted(rows) == {rows, {}}

(* The call is over: its row goes to the receipt's buffer or to the table. *)
Emit(j, rows, kept) ==
  IF j.kind \in {"receipt", "sweep"}
  THEN [j EXCEPT !.call = None, !.step = @ + 1, !.buffer = @ \cup rows]
  ELSE [j EXCEPT !.call = None, !.step = @ + 1, !.rows = @ \cup kept]

JobOver(w) == job' = [job EXCEPT ![w] = None]

(* A call that raised.  An LlmError leaves a row, anything else none; the  *)
(* exception ends the job unless its caller survives it, and a job that is *)
(* rolled back takes its rows along, those of a receipt's buffer included. *)
Raise(w, j, call, class) ==
  LET rows == IF class = "unexpected" THEN {} ELSE {Row(j, call, FALSE)}
  IN \E kept \in Inserted(rows) :
       IF Survives(j.kind, class)
       THEN job' = [job EXCEPT ![w] = Emit(j, rows, kept)] /\ UNCHANGED log
       ELSE /\ JobOver(w)
            /\ log' = IF Commits(j.kind) THEN log \cup j.rows \cup kept ELSE log

Calling(w) == job[w] # None /\ job[w].call # None

-----------------------------------------------------------------------------
(* _request: timeouts, rate limits and errors of the server are tried      *)
(* again, around the one request that failed.                              *)
(* Mutant: the whole conversation is tried again.                          *)
Again_FromTheTop(call) ==
  [call EXCEPT !.attempt = @ + 1, !.turn = 1, !.transcript = <<>>]

Again(call) == [call EXCEPT !.attempt = @ + 1]

Retry(w) ==
  /\ Calling(w)
  /\ job[w].call.attempt < MaxRetries
  /\ Continue(w, Again(job[w].call))
  /\ UNCHANGED <<config, changes, learned, jobs, calls, charged, log>>

(* Mutant: what was refused is sent again.                                 *)
Without_Kept(call, name) == [call EXCEPT !.attempt = 0]

Without(call, name) ==
  [call EXCEPT !.params = @ \ {name}, !.attempt = 0, !.dropped = TRUE]

(* OpenAIClient._create: a parameter the model refuses is dropped once,    *)
(* remembered by the process, and the request made again with new retries. *)
DropParameter(w) ==
  /\ Calling(w)
  /\ LET call == job[w].call
     IN /\ Adapter(job[w].provider) = "openai"
        /\ ~call.dropped
        /\ \E name \in call.params \cap Refuses[call.model] \cap Droppable :
             /\ learned' = [learned EXCEPT ![w][call.model] = @ \cup {name}]
             /\ Continue(w, Without(call, name))
  /\ UNCHANGED <<config, changes, jobs, calls, charged, log>>

(* A failure that is not retried, or once too often; an exception that is  *)
(* not the provider's.                                                     *)
RequestFails(w) ==
  /\ Calling(w)
  /\ \E class \in {"LlmProviderError", "unexpected"}
               \cup (IF job[w].call.attempt = MaxRetries
                     THEN {"LlmTimeout", "LlmRateLimited"} ELSE {}) :
       Raise(w, job[w], job[w].call, class)
  /\ UNCHANGED <<config, changes, learned, jobs, calls, charged>>

-----------------------------------------------------------------------------
(* Responses.  A model never answers a request it refuses a parameter of.  *)
Answered(call) == call.params \cap Refuses[call.model] = {}

(* Mutant: only the last response is paid for.                             *)
Read_Last(call, id) == [call EXCEPT !.usage = 1, !.answeredAs = id]

Read(call, id) == [call EXCEPT !.usage = @ + 1, !.answeredAs = id]

Charge(call) == charged' = [charged EXCEPT ![call.no] = @ + 1]

Done(w, j, call) ==
  \E kept \in Inserted({Row(j, call, TRUE)}) :
    job' = [job EXCEPT ![w] = Emit(j, {Row(j, call, TRUE)}, kept)]

(* A refusal, a truncated answer, or one not in the shape that was asked.  *)
BadAnswer(w) ==
  /\ Calling(w) /\ Answered(job[w].call)
  /\ Charge(job[w].call)
  /\ Raise(w, job[w], job[w].call, "LlmSchemaError")
  /\ UNCHANGED <<config, changes, learned, jobs, calls>>

StructuredAnswer(w) ==
  /\ Calling(w) /\ Answered(job[w].call)
  /\ Shape(job[w].kind) = "structured"
  /\ \E id \in Answering[job[w].call.model] :
       Done(w, job[w], Read(job[w].call, id))
  /\ Charge(job[w].call)
  /\ UNCHANGED <<config, changes, learned, jobs, calls, log>>

(* The messages of one round of tools: each call followed by its output,   *)
(* or one message of all the calls and one of all the results.  A handler  *)
(* that fails, or a tool that does not exist, has an output too.           *)
ToolCall(turn, i, name) == [turn |-> turn, i |-> i, name |-> name]
Message(role, use) == [role |-> role, use |-> use]
AsCalls(uses) == [i \in DOMAIN uses |-> Message("call", uses[i])]
AsOutputs(uses) == [i \in DOMAIN uses |-> Message("output", uses[i])]

Messages(provider, uses) ==
  IF Adapter(provider) = "openai"
  THEN [k \in 1..(2 * Len(uses)) |->
          Message(IF k % 2 = 1 THEN "call" ELSE "output", uses[(k + 1) \div 2])]
  ELSE AsCalls(uses) \o AsOutputs(uses)

(* run_tool_handler refuses a tool it does not know.                       *)
Runs(uses) == SetToBag({use \in uses : use.name \in Tools})

(* A turn of the question loop: the tools run, and the next request asks   *)
(* with their outputs; no calls, or no turn left, and the call is over.    *)
ToolsAnswer(w) ==
  /\ Calling(w) /\ Answered(job[w].call)
  /\ Shape(job[w].kind) = "tools"
  /\ \E id \in Answering[job[w].call.model], names \in Uses :
       LET j == job[w]
           call == Read(j.call, id)
           uses == [i \in DOMAIN names |-> ToolCall(call.turn, i, names[i])]
           next == [call EXCEPT !.transcript = @ \o Messages(j.provider, uses),
                                !.ran = @ (+) Runs(ToSet(uses)),
                                !.turn = @ + 1]
       IN IF uses = <<>> \/ call.turn = MaxTurns
          THEN Done(w, j, IF uses = <<>> THEN call ELSE next)
          ELSE Continue(w, Request(next, w, j))
  /\ Charge(job[w].call)
  /\ UNCHANGED <<config, changes, learned, jobs, calls, log>>

-----------------------------------------------------------------------------
(* The job made its calls, or a rule spared it the second, or it goes on   *)
(* without a client.  A receipt's rows get its proposal's name.            *)
Flushed(j) ==
  IF j.kind = "sweep" THEN {} ELSE {[row EXCEPT !.proposal = j.no] : row \in j.buffer}

FinishJob(w) ==
  \E j \in {job[w]} \ {None} :
    /\ j.call = None
    /\ IF HasClient(j) THEN j.step > 1 ELSE j.kind # "receipt"
    /\ JobOver(w)
    /\ \E kept \in Inserted(Flushed(j)) : log' = log \cup j.rows \cup kept
    /\ UNCHANGED <<config, changes, learned, jobs, calls, charged>>

(* Anything else the job does may fail, and a receipt without a client     *)
(* does: it is rolled back.                                                *)
JobFails(w) ==
  /\ job[w] # None /\ ~Calling(w)
  /\ JobOver(w)
  /\ UNCHANGED <<config, changes, learned, jobs, calls, charged, log>>

(* The process ends, in the middle of a job too; a new one knows nothing.  *)
ProcessEnds(w) ==
  /\ learned' = [learned EXCEPT ![w] = NothingLearned]
  /\ JobOver(w)
  /\ UNCHANGED <<config, changes, jobs, calls, charged, log>>

Configure ==
  /\ changes < MaxConfigs
  /\ config' \in Configs
  /\ changes' = changes + 1
  /\ UNCHANGED <<learned, job, jobs, calls, charged, log>>

RequestEnds(w) ==
  Retry(w) \/ DropParameter(w) \/ RequestFails(w)
    \/ BadAnswer(w) \/ StructuredAnswer(w) \/ ToolsAnswer(w)

CallsNext ==
  \/ \E w \in Workers :
       \/ StartJob(w) \/ StartCall(w) \/ RequestEnds(w)
       \/ FinishJob(w) \/ JobFails(w) \/ ProcessEnds(w)
  \/ Configure

(* Every request has a timeout: it ends, with a response or without.       *)
CallsSpec == CallsInit /\ [][CallsNext]_callsVars /\ \A w \in Workers : WF_callsVars(RequestEnds(w))

-----------------------------------------------------------------------------
(* Properties.                                                             *)

(* A request that is repeated repeats nothing else: the tools that ran are *)
(* those whose outputs the next request shows the model, each ran once,    *)
(* and every call is shown once, in the order of the calls, and before its *)
(* output.                                                                 *)
Shown(messages, role) ==
  {messages[k].use : k \in {i \in DOMAIN messages : messages[i].role = role}}

Before(use, other) ==
  use.turn < other.turn \/ (use.turn = other.turn /\ use.i < other.i)

ToolsRunOnce ==
  \A w \in Workers : Calling(w) =>
    LET call == job[w].call
        said == call.transcript
    IN /\ call.ran = Runs(Shown(said, "output"))
       /\ \A i, k \in DOMAIN said :
            i < k /\ said[i].role = said[k].role => Before(said[i].use, said[k].use)
       /\ \A i \in DOMAIN said : \E k \in DOMAIN said :
            i <= k /\ said[k] = Message("output", said[i].use)

(* The row of a call that succeeded has the price of everything the        *)
(* provider delivered for it, at the rate of the model that answered.      *)
OkRowsArePaidFor ==
  \A row \in log :
    row.ok => row.cost = charged[row.call] * Price[Family[row.model]]

(* Two calls of one job for one purpose are answered by one model, whatever*)
(* becomes of the site config meanwhile, and the calls of a sweep by the   *)
(* model it measures.                                                      *)
JobsKeepTheirModels ==
  /\ \A row, other \in log :
       row.job = other.job /\ row.purpose = other.purpose
         => Family[row.model] = Family[other.model]
  /\ \A w \in Workers : job[w] # None =>
       \A row \in job[w].buffer :
         job[w].asked # None => Family[row.model] = job[w].asked

(* Every call ends.                                                        *)
CallsEnd == \A w \in Workers : Calling(w) ~> ~Calling(w)

(* frappe_log: "every call writes" a row.                                  *)
Open(w) ==
  IF job[w] = None THEN {}
  ELSE {row.call : row \in job[w].buffer \cup job[w].rows}
         \cup (IF job[w].call = None THEN {} ELSE {job[w].call.no})

EveryCallWrites ==
  \A n \in 1..calls :
    (\E row \in log : row.call = n) \/ (\E w \in Workers : n \in Open(w))
=============================================================================
