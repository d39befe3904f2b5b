---------------------------- MODULE MCClientViews ----------------------------
(* The views of the client, and parts of the server, side by side: a          *)
(* behaviour is one of a part, the parts share nothing but these slots. A    *)
(* slot a part does not use is None.                                         *)
EXTENDS Integers, Sequences

CONSTANTS None, c1, c2, d1, d2, i1, i2, i3, Unknown, Blank, Missing

VARIABLES part, v1, v2, v3, v4, v5, v6, v7, v8, v9, v10, v11, v12, v13, v14, v15

(* Two subjects, one below the other, and what is recorded on them: by two   *)
(* connections, of which one was silent lately (Ranged), and with sequences  *)
(* that are not in the order of the arrivals (Searched).                     *)
Branches == [s \in {"s", "s.t"} |-> IF s = "s" THEN {"s", "s.t"} ELSE {s}]
Ranged == {[conn |-> c2, subj |-> "s", at |-> 1], [conn |-> c1, subj |-> "s", at |-> 2],
           [conn |-> c1, subj |-> "s.t", at |-> 3], [conn |-> c1, subj |-> "s.t", at |-> 4],
           [conn |-> c1, subj |-> "s", at |-> 5]}
Found(c, s, a, n, has) == [conn |-> c, subj |-> s, at |-> a, seq |-> n, has |-> has]
Searched == {Found(c1, "s", 1, 1, {"a"}), Found(c1, "s", 2, 2, {"a", "ab"}),
             Found(c1, "s.t", 2, 3, {"a"}), Found(c1, "s.t", 5, 4, {"a", "ab"}),
             Found(c2, "s.t", 4, 1, {"a"}), Found(c2, "s", 3, 5, {"a"})}

-----------------------------------------------------------------------------
Live == INSTANCE LiveView WITH
    Top <- "top", Below <- "below", Filtered <- {1}, Page <- 2,
    OlderPage <- 1, BranchPage <- 1, MaxLoaded <- 4, MaxMessages <- 2,
    MaxOps <- 2, MaxDrops <- 0, on <- v1, cleared <- v2, selected <- v3,
    live <- v4, filter <- v5, asked <- v6, seqs <- v7, socket <- v8,
    focus <- v9, feed <- v10, sure <- v11, spent <- v12

LiveLost == INSTANCE LiveView WITH
    Top <- "top", Below <- "below", Filtered <- {1}, Page <- 2,
    OlderPage <- 1, BranchPage <- 1, MaxLoaded <- 4, MaxMessages <- 1,
    MaxOps <- 2, MaxDrops <- 1, on <- v1, cleared <- v2, selected <- v3,
    live <- v4, filter <- v5, asked <- v6, seqs <- v7, socket <- v8,
    focus <- v9, feed <- v10, sure <- v11, spent <- v12

Resources == INSTANCE ResourceViews WITH
    None <- None, Conns <- {c1, c2}, Domains <- {d1, d2}, Names <- {"a", "b"},
    Existing <- {<<c1, d1, "b">>} \cup {<<c, d, "a">> : c \in {c1, c2}, d \in {d1, d2}},
    MaxOps <- 2, MaxEvents <- 1, family <- v1, world <- v2, ui <- v3,
    asked <- v4, calls <- v5, dialog <- v6, owed <- v7, mixed <- v8,
    spent <- v9

Nav == INSTANCE Navigation WITH
    None <- None, Conns <- {c1, c2}, Unknown <- Unknown, Saved <- {c1, c2},
    Modules <- {"subjects", "kv", "jetstream", "services"}, Words <- {"a"},
    MaxOps <- 2, MaxEvents <- 1, tab <- v1, up <- v2, frames <- v3,
    calls <- v4, asks <- v5, phantom <- v6, strayed <- v7, spent <- v8

Saved == INSTANCE SavedConnections WITH
    None <- None, Ids <- {1, 2, 3}, Initially <- {1, 2},
    Edits <- {"e", "f", "none"}, NoServers <- "none", All <- ">",
    Patterns <- {">", "orders"}, Topics <- {"sys"}, MaxOps <- 4,
    MaxCalls <- 1, items <- v1, dialog <- v2, asked <- v3, calls <- v4,
    server <- v5, shown <- v6, wanted <- v7, ops <- v8

Settings == INSTANCE BrowserSettings WITH
    Tabs <- {1}, Lists <- {"bookmarks"}, Switches <- {"theme"},
    Reread <- {"bookmarks"}, Items <- {"a"}, MaxOps <- 3, MaxFails <- 1,
    MaxLoads <- 2, local <- v1, backend <- v2, mem <- v3, tab <- v4,
    loggedIn <- v5, seen <- v6, spent <- v7

Templates == INSTANCE Requests WITH
    None <- None, Ids <- {i1, i2, i3}, Blank <- Blank, Missing <- Missing,
    Sends <- {"a", "b"}, Empty <- "empty", Repeats <- {"a"}, Refused <- {"b"},
    Bounds <- {0, 9}, Unbound <- 0, MaxOps <- 3, MaxEvents <- 1, items <- v1,
    selected <- v2, made <- v3, module <- v4, form <- v5, runs <- v6,
    checking <- v7, spent <- v8

Forms == INSTANCE ConfigForms WITH
    None <- None, Second <- 2, Units <- {2, 120}, Durations <- {0, 3, 120},
    Limits <- {0, 5}, Names <- {"S"}, Starts <- {1}, Minute <- 120,
    Here <- "here", Places <- {"here", "elsewhere"}, Keys <- {"k", "nats"},
    Own <- {"nats"}, Subjects <- {"a"}, MaxEdits <- 1, MaxCalls <- 1,
    held <- v1, form <- v2, calls <- v3, spent <- v4

Alerts == INSTANCE AlertsPanel WITH
    None <- None, Ids <- {1, 2}, Windows <- {"w"}, Patterns <- {"a", ""},
    Good <- {"a"}, MaxOps <- 2, MaxEvents <- 1, held <- v1, pushed <- v2,
    store <- v3, dialog <- v4, calls <- v5, overlap <- v6, spent <- v7

Tree == INSTANCE TreeView WITH
    None <- None, Conns <- {c1, c2}, Subjects <- {"a", "ab", "s"},
    System <- {"s"},
    Above <- [s \in {"a", "ab", "s"} |-> IF s = "ab" THEN {"a"} ELSE {}],
    Matching <- [f \in {"hit", "miss"} |-> IF f = "hit" THEN {"ab"} ELSE {}],
    MaxOps <- 2, MaxChanges <- 2, MaxMoves <- 0, trees <- v1, asked <- v2, sent <- v3,
    wire <- v4, model <- v5, view <- v6, due <- v7, rows <- v8, ui <- v9,
    auto <- v10, over <- v11, spent <- v12, conns <- v13, known <- v14

TreeMoves == INSTANCE TreeView WITH
    None <- None, Conns <- {c1}, Subjects <- {"a"}, System <- {},
    Above <- [s \in {"a"} |-> {}], Matching <- [f \in {} |-> {}],
    MaxOps <- 0, MaxChanges <- 2, MaxMoves <- 3, trees <- v1, asked <- v2,
    sent <- v3, wire <- v4, model <- v5, view <- v6, due <- v7, rows <- v8,
    ui <- v9, auto <- v10, over <- v11, spent <- v12, conns <- v13,
    known <- v14

Update == INSTANCE Updater WITH
    None <- None, Versions <- {1, 2}, First <- 1, Kind <- "file", MaxOps <- 3,
    MaxFaults <- 2, latest <- v1, disk <- v2, proc <- v3, job <- v4,
    calls <- v5, ui <- v6, cache <- v7, spent <- v8

UpdateRenamed == INSTANCE Updater WITH
    None <- None, Versions <- {1, 2}, First <- 1, Kind <- "renamed",
    MaxOps <- 3, MaxFaults <- 2, latest <- v1, disk <- v2, proc <- v3,
    job <- v4, calls <- v5, ui <- v6, cache <- v7, spent <- v8

Pane == INSTANCE SubjectPane WITH
    None <- None, Subjects <- {"s", "s.t"}, Under <- Branches,
    Recorded <- Ranged,
    Span <- [r \in {"all", "old"} |-> IF r = "all" THEN 1..5 ELSE 1..3],
    Page <- 2, AutoMax <- 6, ExportMax <- 6, Fields <- {"f"}, MaxFields <- 1,
    Aggs <- {"a"}, MaxOps <- 4, MaxEvents <- 1, tab <- v1, uses <- v2,
    asked <- v3, older <- v4, cache <- v5, held <- v6, auto <- v7, away <- v8,
    calls <- v9, export <- v10, file <- v11, world <- v12, hurried <- v13,
    picked <- v14, spent <- v15

Search == INSTANCE HistorySearch WITH
    None <- None, Subjects <- {"s", "s.t"}, Under <- Branches,
    Recorded <- Searched, Queries <- {"a", "ab"}, Blank <- "",
    Window <- {2, 3, 4}, Page <- 2, MaxOps <- 4, MaxEvents <- 1,
    recorded <- v1, db <- v2, subject <- v3, ranged <- v4, q <- v5,
    scoped <- v6, st <- v7, asked <- v8, row <- v9, hurried <- v10,
    spent <- v11

Chart == INSTANCE ChartPoints WITH
    None <- None, Values <- {0, 2},
    Aggs <- {"minmax", "count", "sum", "rate"}, Points <- 2, Pixels <- 2,
    MaxSamples <- 3, MaxOps <- 2, samples <- v1, agg <- v2, asked <- v3,
    series <- v4, points <- v5, drawn <- v6, window <- v7, pointer <- v8,
    did <- v9, spent <- v10

Hub == INSTANCE WsHub WITH
    None <- None, Tabs <- {c1}, Keys <- {"k"}, Subjects <- {"s"},
    Views <- {"v", "w"}, MaxManagers <- 2, MaxCommands <- 3, MaxBuffered <- 1,
    hub <- v1, closed <- v2, pump <- v3, watchers <- v4, watch <- v5,
    wants <- v6, serving <- v7, knows <- v8, late <- v9, spent <- v10

Policy == INSTANCE LivePolicy WITH
    Servers <- 1, MaxDrops <- 2, MaxCloses <- 1, MaxTries <- 4,
    MaxOutages <- 1, nc <- v1, queue <- v2, policy <- v3, apiUp <- v4,
    pending <- v5, asking <- v6, spent <- v7, truth <- v8

Queue == INSTANCE ManagerQueue WITH
    Feeders <- {c1, c2}, BatchSize <- 2, QueueSize <- 1, MaxMessages <- 4,
    MaxRuns <- 1, run <- v1, phase <- v2, held <- v3, pend <- v4, hand <- v5,
    in <- v6, worker <- v7, over <- v8, counted <- v9, recorded <- v10,
    lost <- v11, delivered <- v12

QueueAgain == INSTANCE ManagerQueue WITH
    Feeders <- {c1}, BatchSize <- 2, QueueSize <- 1, MaxMessages <- 4,
    MaxRuns <- 2, run <- v1, phase <- v2, held <- v3, pend <- v4, hand <- v5,
    in <- v6, worker <- v7, over <- v8, counted <- v9, recorded <- v10,
    lost <- v11, delivered <- v12

-----------------------------------------------------------------------------
(* A part of n variables leaves the slots after v_n alone. *)
Rest12 == <<v13, v14, v15>>
Rest11 == <<v12, Rest12>>
Rest10 == <<v11, Rest11>>
Rest9 == <<v10, Rest10>>
Rest8 == <<v9, Rest9>>
Rest7 == <<v8, Rest8>>
Rest6 == <<v7, Rest7>>
Rest5 == <<v6, Rest6>>
Rest4 == <<v5, Rest5>>

After12 == v13 = None /\ v14 = None /\ v15 = None
After11 == v12 = None /\ After12
After10 == v11 = None /\ After11
After9 == v10 = None /\ After10
After8 == v9 = None /\ After9
After7 == v8 = None /\ After8
After6 == v7 = None /\ After7
After5 == v6 = None /\ After6
After4 == v5 = None /\ After5

Init ==
    \/ part = "Live" /\ Live!Init /\ After12
    \/ part = "LiveLost" /\ LiveLost!Init /\ After12
    \/ part = "Resources" /\ Resources!Init /\ After9
    \/ part = "Nav" /\ Nav!Init /\ After8
    \/ part = "Saved" /\ Saved!Init /\ After8
    \/ part = "Settings" /\ Settings!Init /\ After7
    \/ part = "Templates" /\ Templates!Init /\ After8
    \/ part = "Forms" /\ Forms!Init /\ After4
    \/ part = "Alerts" /\ Alerts!Init /\ After7
    \/ part = "Tree" /\ Tree!Init /\ v15 = None
    \/ part = "TreeMoves" /\ TreeMoves!Init /\ v15 = None
    \/ part = "Update" /\ Update!Init /\ After8
    \/ part = "UpdateRenamed" /\ UpdateRenamed!Init /\ After8
    \/ part = "Pane" /\ Pane!Init
    \/ part = "Search" /\ Search!Init /\ After11
    \/ part = "Chart" /\ Chart!Init /\ After10
    \/ part = "Hub" /\ Hub!Init /\ After10
    \/ part = "Policy" /\ Policy!Init /\ After8
    \/ part = "Queue" /\ Queue!Init /\ After12
    \/ part = "QueueAgain" /\ QueueAgain!Init /\ After12

Next ==
    /\ UNCHANGED part
    /\ \/ part = "Live" /\ Live!Next /\ UNCHANGED Rest12
       \/ part = "LiveLost" /\ LiveLost!Next /\ UNCHANGED Rest12
       \/ part = "Resources" /\ Resources!Next /\ UNCHANGED Rest9
       \/ part = "Nav" /\ Nav!Next /\ UNCHANGED Rest8
       \/ part = "Saved" /\ Saved!Next /\ UNCHANGED Rest8
       \/ part = "Settings" /\ Settings!Next /\ UNCHANGED Rest7
       \/ part = "Templates" /\ Templates!Next /\ UNCHANGED Rest8
       \/ part = "Forms" /\ Forms!Next /\ UNCHANGED Rest4
       \/ part = "Alerts" /\ Alerts!Next /\ UNCHANGED Rest7
       \/ part = "Tree" /\ Tree!Next /\ UNCHANGED v15
       \/ part = "TreeMoves" /\ TreeMoves!Next /\ UNCHANGED v15
       \/ part = "Update" /\ Update!Next /\ UNCHANGED Rest8
       \/ part = "UpdateRenamed" /\ UpdateRenamed!Next /\ UNCHANGED Rest8
       \/ part = "Pane" /\ Pane!Next
       \/ part = "Search" /\ Search!Next /\ UNCHANGED Rest11
       \/ part = "Chart" /\ Chart!Next /\ UNCHANGED Rest10
       \/ part = "Hub" /\ Hub!Next /\ UNCHANGED Rest10
       \/ part = "Policy" /\ Policy!Next /\ UNCHANGED Rest8
       \/ part = "Queue" /\ Queue!Next /\ UNCHANGED Rest12
       \/ part = "QueueAgain" /\ QueueAgain!Next /\ UNCHANGED Rest12

vars == <<part, v1, v2, v3, v4, v5, v6, v7, v8, v9, v10, v11, v12, v13, v14, v15>>
Spec == Init /\ [][Next]_vars

-----------------------------------------------------------------------------
(* The properties, each stated and explained in the module of its part.     *)

(* No live view waits for what nobody will bring, and one that was loaded   *)
(* with the feed in place misses nothing (lib/feed.ts, store/index.ts).     *)
LiveViewsFill ==
    /\ part = "Live" => Live!WaitsForSomething /\ Live!NothingMissed
    /\ part = "LiveLost" => LiveLost!WaitsForSomething /\ LiveLost!NothingMissed

(* A page shows what this tab wrote, of the place and the name selected,    *)
(* and says it loads only while it does (lib/useAsync.ts and its users).    *)
ResourcesAreCurrent ==
    part = "Resources" => Resources!OwnWritesShown /\ Resources!ShownIsSelected /\ Resources!LoadsSomething

(* What is selected is of the connection the tab is at (store/index.ts,     *)
(* lib/urlSync.ts).                                                         *)
PlacesAreOfTheConnection == part = "Nav" => Nav!SelectionIsOfConnection

(* What is entered is kept: saved connections hold what was saved of them   *)
(* last, a changed setting is in each of the two stores that did not refuse *)
(* it, a request form is busy only while a request is, and editing a        *)
(* configuration leaves what was not edited -- but for an unlimited number  *)
(* of unacknowledged messages, and details of sources and waits             *)
(* (store/savedConnections.ts, lib/storage.ts, RequestForm.tsx,             *)
(* StreamDialog.tsx and the other dialogs).                                 *)
SavedIsKept ==
    /\ part = "Saved" => Saved!SavedEditsSurvive
    /\ part = "Settings" => Settings!WrittenToBoth
    /\ part = "Templates" => Templates!BusyMeansUnderWay
    /\ part = "Forms" => Forms!EditKeepsTheRest

(* With nothing under way the alerts are those of the server, and the tree  *)
(* is that of its connections unless a list of these came late              *)
(* (store/alerts.ts, worker/feedCore.ts).                                   *)
PanelsShowTheServer ==
    /\ part = "Alerts" => Alerts!SettledIsShown
    /\ part = "Tree" => Tree!RowsShowTheView
    /\ part = "TreeMoves" => TreeMoves!RowsShowTheView


(* Reading back page by page leaves no hole, what the reader picked stays   *)
(* picked, and the points of a chart stand for each message once, keep the  *)
(* extremes, and a drag across them picks none (SubjectDetail.tsx,          *)
(* HistorySearch.tsx, ValueChart.tsx, aggregate.go).                        *)
ReadingBackIsWhole ==
    /\ part = "Pane" => Pane!RangeHasNoHoles /\ Pane!PickedStays
    /\ part = "Search" => Search!HitsHaveNoHoles
    /\ part = "Chart" => Chart!EachMessageOnce /\ Chart!PeaksAreDrawn /\ Chart!DragPicksNothing

(* Of a tab that is gone the server keeps only what its reader did late,    *)
(* watches can be ended by who began them, and the managers, those started  *)
(* later too, serve what the tabs asked for (ws/hub.go, handler/live.go,    *)
(* server.go).                                                              *)
TabsAreLetGo ==
    part = "Hub" => Hub!GoneLeavesTheLate /\ Hub!WatchesHaveTheirKey /\ Hub!ManagersFollow

(* A message is recorded once, in the order its goroutine had it, and not   *)
(* after the manager stopped; a drop of the live connection counts once, an *)
(* attempt waits longer only after a second drop soon after connecting (or  *)
(* one opened while the server was away), and only failures count towards   *)
(* giving it up (subscription/manager.go, connection/live.go).              *)
FeedIsAccounted ==
    /\ part = "Queue" => Queue!EachMessageOnce /\ Queue!StoppedLeavesNothing /\ Queue!OrderedPerSender
    /\ part = "QueueAgain" =>
         QueueAgain!EachMessageOnce /\ QueueAgain!StoppedLeavesNothing /\ QueueAgain!OrderedPerSender
    /\ part = "Policy" => Policy!EachDropOnce /\ Policy!FirstIsFollowed /\ Policy!GivenUpAfterFailures

(* Refuted (MCRefuted.cfg): "Picking a range means asking for that range,   *)
(* not for its first page" (SubjectDetail.tsx), a range that is not loading *)
(* shows its total.                                                         *)
RangeFilledIsWhole == part = "Pane" => Pane!FilledIsWhole

(* Refuted: a watch is "torn down when the client disconnects"              *)
(* (handler/live.go).                                                       *)
WatchIsTornDown == part = "Hub" => Hub!TornDown

(* Refuted: "The ring is in arrival order" (history.go newestBefore).       *)
RingIsInArrivalOrder == part = "Queue" => Queue!RecordedInOrder

(* Refuted: "The first drop never waits" (live.go).                         *)
FirstDropNeverWaits == part = "Policy" => Policy!FirstNeverWaits

(* Refuted: what was not touched in a form stays as it was (StreamDialog).  *)
FormsLoseNothing == part = "Forms" => Forms!UntouchedStays

(* Refuted: "Trees of connections that vanished go with them" (feedCore.ts), *)
(* those of connections that did not stay.                                  *)
OnlyTheVanishedGo == part = "TreeMoves" => TreeMoves!OnlyTheVanishedGo

(* Refuted: "an update that fails halfway leaves the old version as it was" *)
(* (put.go), where it is swapped by renames.                                *)
HalfwayLeavesTheOld == part = "UpdateRenamed" => UpdateRenamed!HalfwayLeavesTheOld
=============================================================================
