-------------------------------- MODULE Updater --------------------------------
(* The desktop app replacing itself: the updater of the running process with  *)
(* the files it renames one after the other, and the window's two views of it  *)
(* (the hint in the status bar, the section of the settings) over one store.   *)
(* The window is the process's own: both end together.                         *)
EXTENDS Naturals, FiniteSets

CONSTANTS None,
          Versions,  \* versions there are, the releases and what is installed
          First,     \* the version installed to begin with
          Kind,      \* "file" (Linux: linked) or "renamed" (Windows, macOS)
          MaxOps, MaxFaults

UpdaterAssumption == Versions \subseteq Nat /\ First \in Versions /\ Kind \in {"file", "renamed"}

VARIABLES latest, \* the newest release
          disk,   \* app in place, previous one kept, the note naming it, one set
                  \* aside; ghosts: what was in place before, and what went wrong
          proc,   \* the running process: version, state told, version told, previous told, relaunch
          job,    \* the update or rollback under way: what, step, version
          calls,  \* requests of the window and their answers
          ui,     \* release found, status, error, restarting, busy
          cache,  \* what the daily look found last: the release, whether today; its switch
          spent

vars == <<latest, disk, proc, job, calls, ui, cache, spent>>
window == <<calls, ui, cache>>

NoJob == [what |-> None, at |-> None, version |-> None]
NewWindow == [release |-> None, status |-> None, error |-> FALSE, restarting |-> FALSE, busy |-> None]
PreviousVersion(d) == IF d.kept = None THEN None ELSE d.note
Started(d) == [up |-> TRUE, current |-> d.app, state |-> "idle", version |-> None, previous |-> PreviousVersion(d), relaunch |-> FALSE]
Status == [state |-> proc.state, version |-> proc.version, previous |-> proc.previous]
Refused == [state |-> "refused", version |-> None, previous |-> None]
Newer(v, w) == v # None /\ v > w

(* The window looks for a release and asks where the update stands.         *)
Refresh == [op |-> "get", answer |-> None]
Init ==
    /\ latest = First /\ disk = [app |-> First, kept |-> None, note |-> None, aside |-> None, was |-> First, astray |-> {}]
    /\ proc = Started(disk) /\ job = NoJob
    /\ ui = NewWindow /\ calls = {Refresh} /\ cache = [release |-> None, today |-> FALSE, on |-> TRUE]
    /\ spent = [ops |-> 0, faults |-> 0]

Op == spent.ops < MaxOps /\ spent' = [spent EXCEPT !.ops = @ + 1]
Fault == spent.faults < MaxFaults /\ spent' = [spent EXCEPT !.faults = @ + 1]

-----------------------------------------------------------------------------
(* The window.                                                              *)

CheckForUpdate ==
    /\ proc.up /\ cache.on /\ ui.release = None
    /\ \E found \in {None, latest} :
         LET known == IF cache.today THEN cache.release ELSE found
         IN  /\ Newer(known, proc.current)
             /\ ui' = [ui EXCEPT !.release = known]
             /\ cache' = IF cache.today THEN cache ELSE [cache EXCEPT !.release = found, !.today = TRUE]
    /\ UNCHANGED <<latest, disk, proc, job, calls, spent>>

Ask(op) == calls' = calls \cup {[op |-> op, answer |-> None]} /\ UNCHANGED <<latest, disk, proc, job, cache>>

(* Polled while a download is shown; asked anew when the settings open.     *)
Poll == proc.up /\ ui.status # None /\ ui.status.state = "downloading" /\ Ask("get") /\ UNCHANGED <<ui, spent>>
OpenSettings == proc.up /\ Op /\ Ask("get") /\ UNCHANGED ui

Offers(S) == proc.up /\ ui.status # None /\ ui.status.state \in S
Run(op, u) == Op /\ Ask(op) /\ ui' = [u EXCEPT !.error = FALSE]

StartUpdate == Offers({"idle", "failed"}) /\ ui.release # None /\ Run("start", ui)
InstallFiles == Offers({"idle", "downloading", "ready", "failed"}) /\ ui.busy = None /\ Run("files", [ui EXCEPT !.busy = "files"])
RollBack == Offers({"idle", "downloading", "ready", "failed"}) /\ ui.status.previous # None /\ ui.busy = None /\ Run("rollback", [ui EXCEPT !.busy = "rollback"])
Restart == Offers({"ready"}) /\ ~ui.restarting /\ Run("restart", [ui EXCEPT !.restarting = TRUE])

(* A refused action keeps its message and looks again.                      *)
Answered(c) ==
    LET free == IF ui.busy = c.op THEN [ui EXCEPT !.busy = None] ELSE ui IN
    /\ ui' = CASE c.answer = Refused -> [free EXCEPT !.error = c.op # "get", !.restarting = IF c.op = "restart" THEN FALSE ELSE @]
               [] c.op = "restart" -> ui
               [] OTHER -> [free EXCEPT !.status = c.answer]
    /\ calls' = (calls \ {c}) \cup (IF c.answer = Refused /\ c.op \in {"start", "files", "rollback"} THEN {Refresh} ELSE {})
Receive == \E c \in {x \in calls : x.answer # None} : Answered(c) /\ UNCHANGED <<latest, disk, proc, job, cache, spent>>

-----------------------------------------------------------------------------
(* The updater. A rollback holds the lock to its end, an update does not.   *)

Unlocked == job.what # "rollback"
Reply(c, a) == (calls \ {c}) \cup {[c EXCEPT !.answer = a]}
Waiting(op) == {c \in calls : c.op = op /\ c.answer = None}

ServeStatus ==
    /\ proc.up /\ Unlocked
    /\ \E c \in Waiting("get") : calls' = Reply(c, Status)
    /\ UNCHANGED <<latest, disk, proc, job, ui, cache, spent>>

Downloading == [proc EXCEPT !.state = "downloading", !.version = None]
ServeStart ==
    /\ proc.up /\ Unlocked
    /\ \E c \in Waiting("start") :
         IF proc.state \in {"idle", "failed"}
         THEN /\ proc' = Downloading /\ job' = [what |-> "start", at |-> "fetch", version |-> None]
              /\ calls' = Reply(c, [Status EXCEPT !.state = "downloading", !.version = None])
         ELSE calls' = Reply(c, Status) /\ UNCHANGED <<proc, job>>
    /\ UNCHANGED <<latest, disk, ui, cache, spent>>

(* The answer of an installation from files waits for its end.              *)
ServeFiles ==
    /\ proc.up /\ Unlocked /\ job.what # "files"
    /\ \E c \in Waiting("files") :
         IF proc.state \in {"downloading", "ready"}
         THEN calls' = Reply(c, Refused) /\ UNCHANGED <<proc, job>>
         ELSE proc' = Downloading /\ job' = [what |-> "files", at |-> "fetch", version |-> None] /\ calls' = calls
    /\ UNCHANGED <<latest, disk, ui, cache, spent>>

ServeRollback ==
    /\ proc.up /\ Unlocked
    /\ \E c \in Waiting("rollback") :
         IF proc.state = "downloading" \/ proc.previous = None
         THEN calls' = Reply(c, Refused) /\ UNCHANGED job
         ELSE job' = [what |-> "rollback", at |-> "aside", version |-> proc.previous] /\ calls' = calls
    /\ UNCHANGED <<latest, disk, proc, ui, cache, spent>>

ServeRestart ==
    /\ proc.up /\ Unlocked
    /\ \E c \in Waiting("restart") :
         IF proc.state # "ready" THEN calls' = Reply(c, Refused) /\ UNCHANGED proc
         ELSE calls' = Reply(c, Status) /\ proc' = [proc EXCEPT !.relaunch = TRUE]
    /\ UNCHANGED <<latest, disk, job, ui, cache, spent>>

-----------------------------------------------------------------------------
(* The files, one call to the system after the other.                       *)

(* An update from files answers its request when it is over.                *)
Finishes(failed, v, told) ==
    LET p == IF failed THEN [proc EXCEPT !.state = "failed"]
             ELSE [proc EXCEPT !.state = "ready", !.version = v, !.previous = PreviousVersion(disk)]
        a == IF failed THEN Refused ELSE [state |-> "ready", version |-> v, previous |-> PreviousVersion(disk)]
    IN  /\ proc' = p /\ job' = NoJob
        /\ calls' = IF told = "files" THEN {IF c.op = "files" THEN [c EXCEPT !.answer = a] ELSE c : c \in calls} ELSE calls
        /\ UNCHANGED <<latest, disk, ui, cache>>

(* The newest release, or the one brought along, is newer and verified.     *)
Fetch ==
    /\ job.at = "fetch"
    /\ \E v \in IF job.what = "start" THEN {latest} ELSE Versions :
         /\ Newer(v, proc.current)
         /\ job' = [job EXCEPT !.at = "clear", !.version = v] /\ proc' = [proc EXCEPT !.version = v]
    /\ UNCHANGED <<latest, disk, window, spent>>

FetchFails == job.at = "fetch" /\ Finishes(TRUE, None, job.what) /\ UNCHANGED spent

Does(d, next) == disk' = d /\ job' = [job EXCEPT !.at = next] /\ UNCHANGED <<latest, proc, window, spent>>

Breaks(d, next) == Fault /\ disk' = d /\ job' = [job EXCEPT !.at = next] /\ UNCHANGED <<latest, proc, window>>

Begun == [disk EXCEPT !.was = disk.app]
ClearPrevious == job.at = "clear" /\ Does([Begun EXCEPT !.kept = None], "keep")
ClearFails == job.at = "clear" /\ \E next \in IF Kind = "file" THEN {"keep"} ELSE {"keep", "failed"} : Breaks(Begun, next)

KeepLinked == Does([disk EXCEPT !.kept = disk.app], "put")
KeepRenamed == Does([disk EXCEPT !.kept = disk.app, !.app = None], "put")
Keep == job.at = "keep" /\ IF Kind = "file" THEN KeepLinked ELSE disk.app # None /\ KeepRenamed

(* A link or a copy that fails is done without, a rename that fails ends it. *)
KeepFails == job.at = "keep" /\ Breaks(disk, IF Kind = "file" THEN "put" ELSE "failed")
NothingToKeep == job.at = "keep" /\ Kind = "renamed" /\ disk.app = None /\ Does(disk, "failed")
Put == job.at = "put" /\ Does([disk EXCEPT !.app = job.version], "note")

(* Putting the new file in place fails: a renamed one is taken back, which   *)
(* may fail as well; nobody looks.                                           *)
PutFails ==
    /\ job.at = "put"
    /\ \/ Kind = "file" /\ Breaks(disk, "failed")
       \/ Kind = "renamed" /\ Breaks([disk EXCEPT !.app = disk.kept, !.kept = None], "failed")
       \/ Kind = "renamed" /\ Breaks([disk EXCEPT !.astray = @ \cup {"undo"}], "failed")
Failed == job.at = "failed" /\ job.what # "rollback" /\ Finishes(TRUE, None, job.what) /\ UNCHANGED spent

(* The rollback: three renames, after what was left aside is removed.       *)
SetAside == [Begun EXCEPT !.aside = disk.app, !.app = None]
Aside == job.at = "aside" /\ IF disk.app # None THEN Does(SetAside, "back") ELSE Does([disk EXCEPT !.aside = None], "failed")
AsideFails == job.at = "aside" /\ Breaks([Begun EXCEPT !.aside = None], "failed")
TakenBack == [disk EXCEPT !.app = disk.aside, !.aside = None]
Misnamed == IF disk.kept = job.version THEN {} ELSE {"note"}
PutBack == [disk EXCEPT !.app = disk.kept, !.kept = None, !.astray = @ \cup Misnamed]
Back ==
    /\ job.at = "back"
    /\ IF disk.kept # None THEN Does(PutBack, "away") ELSE Does(TakenBack, "failed")
BackFails == job.at = "back" /\ (Breaks(TakenBack, "failed") \/ Breaks([disk EXCEPT !.astray = @ \cup {"undo"}], "failed"))
Away == job.at = "away" /\ Does([disk EXCEPT !.kept = disk.aside, !.aside = None], "note")
AwayFails == job.at = "away" /\ Breaks([disk EXCEPT !.astray = @ \cup {"away"}], "failed")

(* notePrevious: what the step replaced. A failed write is only logged.     *)
InPlace == IF job.what = "rollback" /\ proc.state = "ready" THEN proc.version ELSE proc.current
NoteCurrent(d, v) == IF d.kept = None THEN d ELSE [d EXCEPT !.note = proc.current]
Noted(d, v) == IF d.kept = None THEN d ELSE [d EXCEPT !.note = v]
NotePrevious == job.at = "note" /\ Does(Noted(disk, InPlace), "done")
NoteFails == job.at = "note" /\ Breaks(disk, "done")

Installed == job.at = "done" /\ job.what # "rollback" /\ Finishes(FALSE, job.version, job.what) /\ UNCHANGED spent
RolledBack ==
    /\ job.what = "rollback" /\ job.at \in {"done", "failed"}
    /\ LET back == job.version = proc.current
           p == [proc EXCEPT !.state = IF back THEN "idle" ELSE "ready", !.version = IF back THEN None ELSE job.version, !.previous = PreviousVersion(disk)]
       IN  IF job.at = "failed" THEN proc' = proc /\ calls' = {IF c.op = "rollback" THEN [c EXCEPT !.answer = Refused] ELSE c : c \in calls}
           ELSE /\ proc' = p
                /\ calls' = {IF c.op = "rollback" THEN [c EXCEPT !.answer = [state |-> p.state, version |-> p.version, previous |-> p.previous]] ELSE c : c \in calls}
    /\ job' = NoJob /\ UNCHANGED <<latest, disk, ui, cache, spent>>

-----------------------------------------------------------------------------
(* The process closes as asked (an update under way is cut off), or dies;    *)
(* what is in place starts next, and sweeps what was left aside.            *)
Gone == proc' = [proc EXCEPT !.up = FALSE] /\ job' = NoJob /\ calls' = {} /\ ui' = NewWindow /\ UNCHANGED <<latest, disk, cache>>
Closes == proc.up /\ job.what # "rollback" /\ proc.relaunch /\ Gone /\ IF job = NoJob THEN UNCHANGED spent ELSE Fault
Dies == proc.up /\ Fault /\ Gone

Starts ==
    /\ ~proc.up /\ disk.app # None
    /\ disk' = [disk EXCEPT !.aside = None, !.was = disk.app, !.astray = {}] /\ proc' = Started(disk) /\ calls' = {Refresh}
    /\ UNCHANGED <<latest, job, ui, cache, spent>>

Release == Op /\ \E v \in Versions : v > latest /\ latest' = v /\ UNCHANGED <<disk, proc, job, window>>
SetUpdateCheckEnabled == proc.up /\ Op /\ cache' = [cache EXCEPT !.on = ~@] /\ UNCHANGED <<latest, disk, proc, job, calls, ui>>
NextDay == cache.today /\ Op /\ cache' = [cache EXCEPT !.today = FALSE] /\ UNCHANGED <<latest, disk, proc, job, calls, ui>>

Next == \/ CheckForUpdate \/ Poll \/ OpenSettings \/ StartUpdate \/ InstallFiles \/ RollBack \/ Restart \/ Receive
        \/ ServeStatus \/ ServeStart \/ ServeFiles \/ ServeRollback \/ ServeRestart
        \/ Fetch \/ FetchFails \/ ClearPrevious \/ ClearFails \/ Keep \/ KeepFails \/ NothingToKeep \/ Put \/ PutFails \/ Failed
        \/ Aside \/ AsideFails \/ Back \/ BackFails \/ Away \/ AwayFails
        \/ NotePrevious \/ NoteFails \/ Installed \/ RolledBack \/ Closes \/ Dies \/ Starts \/ Release \/ SetUpdateCheckEnabled \/ NextDay

Spec == Init /\ [][Next]_vars
-----------------------------------------------------------------------------
(* Whatever step fails or the process dies in, as long as no way back failed *)
(* as well: the version that was in place is there, or beside it under one   *)
(* of two names. Between two renames the place itself is empty -- in every   *)
(* rollback (swapPrevious), and in an update of the renamed kinds            *)
(* (replaceRunning, replaceBundle); replaceFile never empties it.            *)
NoneIsLost ==
    "undo" \notin disk.astray =>
      /\ disk.app = None => disk.was # None /\ disk.was \in {disk.kept, disk.aside}
      /\ Kind = "file" /\ disk.aside = None => disk.app # None

(* An update or rollback that ends with an error leaves the version in place *)
(* that was there, but where the rollback's last rename failed (put.go says  *)
(* so) or a way back did.                                                    *)
FailedChangesNothing == job.at = "failed" /\ disk.astray \subseteq {"note"} => disk.app = disk.was

(* What the window is told runs next is in place, whatever failed but those  *)
(* two, and unless it went back to a version the note names wrongly (see     *)
(* NoteNamesTheKept). What it is told of going back holds as long as no call *)
(* to the system fails and the process does not die.                         *)
ToldIsInPlace ==
    proc.up /\ job = NoJob =>
      /\ disk.astray = {} => disk.app = IF proc.state = "ready" THEN proc.version ELSE proc.current
      /\ spent.faults = 0 => proc.previous = disk.kept /\ disk.note = disk.kept

(* Not kept: "an update that fails halfway leaves the old version as it was" *)
(* (put.go): of the renamed kinds a process that dies halfway leaves none.   *)
HalfwayLeavesTheOld == ~proc.up /\ disk.aside = None /\ disk.astray = {} => disk.app # None

(* The same with failures: the note and the version kept are two files.      *)
NoteNamesTheKept == proc.up /\ job = NoJob /\ proc.previous # None => proc.previous = disk.kept

(* UpdateHint: a download is followed until it is in place, or is not.       *)
DownloadIsFollowed == proc.up /\ proc.state = "downloading" /\ calls = {} => ui.status.state = "downloading"
=============================================================================
