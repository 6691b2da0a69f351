------------------------------- MODULE MCHost -------------------------------
(***************************************************************************)
(* The components of the host that meet only through the caller, checked   *)
(* in one run.  A behaviour belongs to one part of the host, drawn in its  *)
(* first state: either the approval queue, which this module extends, or   *)
(* one of the modules below, whose variables share s1 to s9.  Where the    *)
(* operations of a module concern unrelated state, the part takes one of   *)
(* the module's next-state relations.                                      *)
(***************************************************************************)
EXTENDS ApprovalQueue

CONSTANTS p1, p2, p3, p4, p5,  \* callers, users, ids, as each part needs them
          keeps, lapses           \* the approvals

\* One approval that never expires and one that does.
MCExpires == [x \in Approvals |-> IF x = lapses THEN 1 ELSE 0]

VARIABLES part, s1, s2, s3, s4, s5, s6, s7, s8, s9

slots == <<s1, s2, s3, s4, s5, s6, s7, s8, s9>>

Pages == INSTANCE BrowserPages WITH
    PageIds <- {p4, p5}, SessionIds <- {p1, p2}, MaxPages <- 1,
    pages <- s1, active <- s2, plan <- s3, lease <- s4
Executor == INSTANCE BrowserExecutor WITH
    Calls <- {p1, p2}, Fields <- 1, HasStore <- TRUE, Polls <- 1, MaxClock <- 2,
    browser <- s1, handler <- s2, owned <- s3, calls <- s4, artifacts <- s5, millis <- s6
Scripts == INSTANCE BrowserPolicy WITH
    MaxTime <- 2,
    asked <- s1
Reads == INSTANCE BrowserEntity WITH
    Markup <- {"p", "h1", "h2", "blockquote", "blank", "pre", "span", "a", "img", "ul", "ol", "thead", "rows", "mixed",
               "article", "main", "stray", "upper", "bare", "title", "meta"},
    MaxPieces <- 3,
    page <- s1, answer <- s2
Search == INSTANCE KnowledgeSearch WITH
    Entries <- {1, 2}, Bodies <- {{}, {"title"}, {"body", "tags"}}, Dimensions <- {1, 2}, Spread <- 1, Limit <- 2,
    fulltext <- s1, embedded <- s2
Knowledge == INSTANCE KnowledgeStores WITH
    Entries <- {p4}, WorkObjects <- {p3}, Answers <- {p1, p2}, MaxSize <- 2, MaxTime <- 1,
    entries <- s1, governance <- s2, questions <- s3, packages <- s4, evidence <- s5, citations <- s6, reader <- s7
Accounts == INSTANCE Credentials WITH
    Ids <- {p4, p5}, Callers <- {p1, p2}, Keychain <- TRUE, MaxTokens <- 2, MaxCalls <- 3,
    metadata <- s1, secrets <- s2, live <- s3, calls <- s4, count <- s5, ghost <- s6
Client == INSTANCE ClientSubstrate WITH
    Callers <- {p1, p2}, Conversations <- {p3}, Actions <- {p4}, MaxCommands <- 2,
    journal <- s1, calls <- s2, projections <- s3, events <- s4, log <- s5, client <- s6
Kernel == INSTANCE KernelHost WITH
    Callers <- {p1, p2}, MaxId <- 3, MaxText <- 4,
    runtime <- s1, memory <- s2, file <- s3, calls <- s4, ghost <- s5
Server == INSTANCE ServerSync WITH
    Objects <- {1, 2}, Permissions <- {1}, Named <- {<<2, 1>>}, MaxSequence <- 3, MaxPages <- 1,
    Publications <- {<<"knowledge", "created">>, <<"knowledge", "deleted">>, <<"message", "created">>,
                     <<"message", "reaction_added">>, <<"message", "enabled">>,
                     <<"skill", "installed">>, <<"skill", "disabled">>,
                     <<"plugin", "installed">>, <<"plugin", "updated">>, <<"plugin", "uninstalled">>,
                     <<"plugin", "permission_granted">>, <<"plugin", "permission_revoked">>},
    stream <- s1, kept <- s2, pages <- s3, held <- s4, saved <- s5
Transfer == INSTANCE SyncTransfer WITH
    Objects <- {p4}, KeyIds <- {p1}, KeyBytes <- {0, 1, 2}, Policy <- "PersonalOnly", MaxContent <- 2, MaxTime <- 1,
    Lifetime <- 0, MaxKeys <- 2, MaxInbox <- 1,
    source <- s1, marks <- s2, manifest <- s3, keys <- s4, connected <- s5, inbox <- s6, received <- s7, clock <- s8, ghost <- s9
Connections == INSTANCE Connectors WITH
    Callers <- {p1, p2}, Agents <- {p4}, Servers <- {p5}, MaxAudit <- 3, MaxAttempts <- 2, BaseDelay <- 2, MaxDelay <- 3, MaxU64 <- 7,
    servers <- s1, bindings <- s2, audit <- s3, calls <- s4, gmail <- s5, operations <- s6, crossed <- s7
Grants == INSTANCE EnterprisePermissions WITH
    Users <- {p1}, Resources <- {p4}, Units <- {p5}, GrantIds <- {p3}, FreshFor <- 0, StaleFor <- 1, Redact <- TRUE, MaxGrants <- 2, MaxTime <- 2, Leads <- {0, 1},
    grants <- s1, lifecycle <- s2, server <- s3, cache <- s4, clock <- s5, answer <- s6, ghost <- s7
Audit == INSTANCE AuditLog WITH
    Writers <- {p1, p2}, BatchSize <- 2, MaxEvents <- 3, MaxCrashes <- 1,
    file <- s1, calls <- s2, pending <- s3, sent <- s4, failures <- s5, reader <- s6, ghost <- s7
Policies == INSTANCE CapabilityPolicy WITH
    Kinds <- {p4}, Effects <- {"ReadOnly", "NetworkAccess", "ExternalSystemMutation"}, Actions <- {p5}, Payloads <- {p1, p2},
    Hosts <- {p3}, Reuse <- "OneTime", MaxTime <- 1,
    registry <- s1, policy <- s2, requests <- s3, receipts <- s4, hosts <- s5, clock <- s6, ran <- s7
Disk == INSTANCE HostStorage WITH
    Callers <- {p1, p2}, Files <- {p4, p5}, Artifacts <- {p3}, Supported <- 2, Registered <- {0, 1}, Ttl <- 1, MaxTime <- 3,
    MaxWrites <- 2, MaxLog <- 2,
    lock <- s1, root <- s2, backup <- s3, objects <- s4, engine <- s5
Messages == INSTANCE Conversations WITH
    Callers <- {p1}, Humans <- {p2}, Agents <- {p3}, Others <- {}, Threads <- {p4}, Entities <- {}, Artifacts <- {}, Surfaces <- {},
    Assets <- {}, MaxEvents <- 5, MaxRecent <- 2,
    journal <- s1, calls <- s2
Links == INSTANCE Conversations WITH
    Callers <- {p1, p2}, Humans <- {p3}, Agents <- {}, Others <- {}, Threads <- {}, Entities <- {p4}, Artifacts <- {p5}, Surfaces <- {p1},
    Assets <- {p2}, MaxEvents <- 4, MaxRecent <- 2,
    journal <- s1, calls <- s2
Times == INSTANCE Timers WITH
    Callers <- {p1, p2}, Jobs <- {p4}, Reminders <- {p5}, MaxTime <- 2, MaxArms <- 2,
    clock <- s1, jobs <- s2, polls <- s3, notified <- s4, reminders <- s5, actions <- s6, store <- s7, saves <- s8
Records == INSTANCE RunRecords WITH
    Callers <- {p1, p2}, Runs <- {p4, p5}, Kinds <- {"RunRequested", "ToolCallStarted"}, Ids <- {p3},
    Outcomes <- {"Completed", "ApprovalRequired"}, MaxEvents <- 3, MaxCrashes <- 1, InitialDelay <- 1, Multiplier <- 2, MaxDelay <- 3,
    MaxAttempts <- 4,
    journal <- s1, records <- s2, calls <- s3, crashes <- s4, retry <- s5
Loads == INSTANCE Config WITH
    Callers <- {}, Profiles <- {p4, p5}, Plain <- {},
    document <- s1, load <- s2, original <- s3, file <- s4, backup <- s5, migrations <- s6
Migrates == INSTANCE Config WITH
    Callers <- {p1, p2}, Profiles <- {}, Plain <- {},
    document <- s1, load <- s2, original <- s3, file <- s4, backup <- s5, migrations <- s6
Index == INSTANCE Assets WITH
    Callers <- {p1, p2}, Assets <- {p4, p5}, MaxUpserts <- 3, MaxCrashes <- 2,
    index <- s1, file <- s2, upserts <- s3, opened <- s4, count <- s5, crashes <- s6, disturbed <- s7
Openings == INSTANCE Assistants WITH
    Callers <- {p1}, Humans <- {p4, p5}, Owner <- p4, Assistant <- p2, Foreground <- {p3}, Entities <- {p1}, MaxConversations <- 2,
    Actions <- {}, Needs <- {}, MaxBindings <- 0,
    conversations <- s1, calls <- s2, environment <- s3, skill <- s4, report <- s5
Skills == INSTANCE Assistants WITH
    Callers <- {}, Humans <- {}, Owner <- p4, Assistant <- p2, Foreground <- {}, Entities <- {}, MaxConversations <- 0,
    Actions <- {p4, p5}, Needs <- {p3}, MaxBindings <- 3,
    conversations <- s1, calls <- s2, environment <- s3, skill <- s4, report <- s5

-----------------------------------------------------------------------------
\* Bounds: the pieces that one page mixes, and the events that one stream mixes, each a type, an operation
\* and an object: entries, snapshots, the grants of two plugins, and the revocations of either's.
PageMixes ==
  {{"p", "h1", "blank", "stray", "upper", "pre", "span", "a", "bare", "title", "article", "main"},
   {"p", "h2", "blockquote", "img", "ul", "ol", "thead", "rows", "mixed", "stray", "article", "meta"}}
StreamMixes ==
  {{"knowledge"} \X {"created", "deleted"} \X {1},
   ({"message"} \X {"created", "reaction_added", "enabled"} \X {1}) \cup ({"skill"} \X {"installed", "disabled"} \X {1}),
   {"plugin"} \X {"installed", "uninstalled", "permission_granted"} \X {1, 2}}
  \cup {{"plugin"} \X {"updated", "uninstalled", "permission_granted", "permission_revoked"} \X {o} : o \in {1, 2}}

OnePageMix(pieces) == \E mix \in PageMixes : \A i \in DOMAIN pieces : pieces[i] \in mix
OneStreamMix(events) ==
  \E mix \in StreamMixes :
    \A i \in DOMAIN events : <<events[i].object_type, events[i].operation, events[i].object_id>> \in mix

\* A part leaves the variables it has no use for alone.
none9 == s9 = 0
none8 == s8 = 0 /\ none9
none7 == s7 = 0 /\ none8
none6 == s6 = 0 /\ none7
none5 == s5 = 0 /\ none6
none4 == s4 = 0 /\ none5
none3 == s3 = 0 /\ none4
none2 == s2 = 0 /\ none3
none1 == s1 = 0 /\ none2
same9 == UNCHANGED s9
same8 == UNCHANGED s8 /\ same9
same7 == UNCHANGED s7 /\ same8
same6 == UNCHANGED s6 /\ same7
same5 == UNCHANGED s5 /\ same6
same4 == UNCHANGED s4 /\ same5
same3 == UNCHANGED s3 /\ same4
same2 == UNCHANGED s2 /\ same3

MCInit ==
  /\ Init
  /\ \/ part = "approvals" /\ none1
     \/ part = "pages" /\ Pages!Init /\ none5
     \/ part = "executor" /\ Executor!Init /\ none7
     \/ part = "scripts" /\ Scripts!Init /\ none2
     \/ part = "reads" /\ Reads!Init /\ none3
     \/ part = "search" /\ Search!Init /\ none3
     \/ part \in {"repository", "governance", "ledger", "evidence"} /\ Knowledge!Init /\ none8
     \/ part = "accounts" /\ Accounts!Init /\ none7
     \/ part = "client" /\ Client!Init /\ none7
     \/ part \in {"runtime", "events"} /\ Kernel!Init /\ none6
     \/ part = "server" /\ Server!Init /\ none6
     \/ part = "transfer" /\ Transfer!Init
     \/ part \in {"bindings", "gmail"} /\ Connections!Init /\ none8
     \/ part \in {"grants", "cached"} /\ Grants!Init /\ none8
     \/ part = "audit" /\ Audit!Init /\ none8
     \/ part = "policies" /\ Policies!Init /\ none8
     \/ part \in {"lock", "migration", "backup", "objects", "engine"} /\ Disk!Init /\ none6
     \/ part = "messages" /\ Messages!Init /\ none3
     \/ part = "links" /\ Links!Init /\ none3
     \/ part \in {"jobs", "reminders", "timers"} /\ Times!Init /\ none9
     \/ part \in {"journal", "outcomes", "retry"} /\ Records!Init /\ none6
     \/ part = "profiles" /\ Loads!Init /\ none7
     \/ part = "migrations" /\ Migrates!Init /\ none7
     \/ part = "assets" /\ Index!Init /\ none8
     \/ part = "openings" /\ Openings!Init /\ none6
     \/ part = "skills" /\ Skills!Init /\ none6

PartNext ==
  \/ part = "pages" /\ Pages!Next /\ same5
  \/ part = "executor" /\ Executor!Next /\ same7
  \/ part = "scripts" /\ Scripts!Next /\ same2
  \/ part = "reads" /\ Reads!Next /\ OnePageMix(s1') /\ same3
  \/ part = "search" /\ Search!Next /\ same3
  \/ part = "repository" /\ Knowledge!RepositoryNext /\ same8
  \/ part = "governance" /\ Knowledge!GovernanceNext /\ same8
  \/ part = "ledger" /\ Knowledge!LedgerNext /\ same8
  \/ part = "evidence" /\ Knowledge!EvidenceNext /\ same8
  \/ part = "accounts" /\ Accounts!Next /\ same7
  \/ part = "client" /\ Client!Next /\ same7
  \/ part = "runtime" /\ Kernel!RuntimeNext /\ same6
  \/ part = "events" /\ Kernel!StoreNext /\ same6
  \/ part = "server" /\ Server!Next /\ OneStreamMix(s1') /\ same6
  \/ part = "transfer" /\ Transfer!Next
  \/ part = "bindings" /\ Connections!BindingNext /\ same8
  \/ part = "gmail" /\ Connections!GmailNext /\ same8
  \/ part = "grants" /\ Grants!LocalNext /\ same8
  \/ part = "cached" /\ Grants!CachedNext /\ same8
  \/ part = "audit" /\ Audit!Next /\ same8
  \/ part = "policies" /\ Policies!Next /\ same8
  \/ part = "lock" /\ Disk!LockNext /\ same6
  \/ part = "migration" /\ Disk!MigrationNext /\ same6
  \/ part = "backup" /\ Disk!BackupNext /\ same6
  \/ part = "objects" /\ Disk!ObjectNext /\ same6
  \/ part = "engine" /\ Disk!EngineNext /\ same6
  \/ part = "messages" /\ Messages!MessageNext /\ same3
  \/ part = "links" /\ Links!LinkNext /\ same3
  \/ part = "jobs" /\ Times!JobNext /\ same9
  \/ part = "reminders" /\ Times!ReminderNext /\ same9
  \/ part = "timers" /\ Times!StoreNext /\ same9
  \/ part = "journal" /\ Records!JournalNext /\ same6
  \/ part = "outcomes" /\ Records!ActionNext /\ same6
  \/ part = "retry" /\ Records!classify_error /\ same6
  \/ part = "profiles" /\ Loads!LoadNext /\ same7
  \/ part = "migrations" /\ Migrates!MigrationNext /\ same7
  \/ part = "assets" /\ Index!Next /\ same8
  \/ part = "openings" /\ Openings!AssistantNext /\ same6
  \/ part = "skills" /\ Skills!SkillNext /\ same6

MCNext ==
  /\ UNCHANGED part
  /\ \/ part = "approvals" /\ Next /\ UNCHANGED slots
     \/ PartNext /\ UNCHANGED vars

MCSpec == MCInit /\ [][MCNext]_<<vars, part, slots>>

-----------------------------------------------------------------------------
\* The browser's pages, actions and policies (BrowserPageRegistry, CdpBrowserExecutor,
\* BrowserSecurityPolicy, StaticHtmlBrowserExecutor): the active page is a tracked one, a browser
\* on offer is polled, an artifact that a result names was kept, no guarded script or wait is let
\* through, and what is read without a browser is the text of the page.
BrowserSound ==
  /\ part = "pages" => Pages!TypeOK /\ Pages!ActiveTracked
  /\ part = "executor" => Executor!TypeOK /\ Executor!BrowserDriven /\ Executor!ArtifactKept
  /\ part = "scripts" => Scripts!DecisionsGuarded
  /\ part = "reads" => Reads!TypeOK /\ Reads!ReadsSound

\* The knowledge indexes and stores (FullTextIndex, EmbeddingIndex, KnowledgeRepository, the
\* governance, ledger and evidence stores) agree with each other and with what was put in.
KnowledgeSound ==
  /\ part = "search" => Search!TypeOK /\ Search!SearchSound
  /\ part \in {"repository", "governance", "ledger", "evidence"} => Knowledge!TypeOK /\ Knowledge!StoresSound

\* What was withdrawn ends: a revoked credential, a stale grant, a used approval receipt, the
\* binding of a server that is gone.
AccessEnds ==
  /\ part = "accounts" => Accounts!TypeOK /\ Accounts!RevocationSound
  /\ part \in {"grants", "cached"} => Grants!StaleAccessEnds
  /\ part = "policies" => Policies!ReceiptsSound
  /\ part \in {"bindings", "gmail"} => Connections!ConnectorsSound

\* A client, a synchronised host and the receiver of a transfer see what the sender had, each
\* event once and in its order.
SyncSound ==
  /\ part = "client" => Client!TypeOK /\ Client!ClientSeesAll
  /\ part = "server" => Server!TypeOK /\ Server!FollowsStream
  /\ part = "transfer" => Transfer!TypeOK /\ Transfer!TransferSound

\* The kernel is built of what its mode admits and its events reopen; a configuration resolves
\* without a cycle and a migration keeps the operator's text.
HostOpens ==
  /\ part \in {"runtime", "events"} => Kernel!TypeOK /\ Kernel!HostSound
  /\ part = "profiles" => Loads!ConfigSound
  /\ part = "migrations" => Migrates!ConfigSound

\* Files under the host's root, the audit log and the asset index, with crashes and torn writes.
FilesSound ==
  /\ part \in {"lock", "migration", "backup", "objects", "engine"} => Disk!StorageSound
  /\ part = "audit" => Audit!AuditLogSound
  /\ part = "assets" => Index!AssetsSound

\* Conversations, their links and the assistant's use of them.
ConversationsHold ==
  /\ part = "messages" => Messages!ConversationSound
  /\ part = "links" => Links!ConversationSound
  /\ part = "openings" => Openings!AssistantsSound
  /\ part = "skills" => Skills!AssistantsSound

\* Scheduled jobs, reminders, and the journals of runs and of action outcomes.
RecordsHold ==
  /\ part \in {"jobs", "reminders", "timers"} => Times!TimersSound
  /\ part \in {"journal", "outcomes", "retry"} => Records!RecordsSound
=============================================================================
