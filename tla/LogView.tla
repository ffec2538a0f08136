------------------------------ MODULE LogView -------------------------------
(***************************************************************************)
(* The logs of the lab: LogStorage.cpp collects them in the reader thread, *)
(* LoggerViewUI.cpp lists the newest in the GTK thread, or what a thread   *)
(* of its own finds when the user searches.  A log is the number in which  *)
(* it was received, which is also its time stamp.                          *)
(***************************************************************************)
EXTENDS Integers, FiniteSets, FiniteSetsExt, Functions

CONSTANTS
  LevelOf,       (* the log level of each log; its domain are the logs      *)
  Matches,       (* per filter the logs it finds                            *)
  MaxStorage,    (* kept in log_storage (10000)                             *)
  MaxBuffer,     (* kept in log_buffer (100)                                *)
  max_log_amount,
  Clicks         (* bound: what the user does                               *)

Logs == DOMAIN LevelOf
Filter == DOMAIN Matches
Level == {1} \union {LevelOf[l] : l \in Logs}

VARIABLES
  received,                 (* how many logs there have been                *)
  log_storage, log_buffer,  (* sets of logs                                 *)
  log_level, filter_active, search_reset, reset_logs,
  text,                     (* the filter in the search entry               *)
  gtk,                      (* "free", or in kill_search_thread to "stop" the *)
                            (* search or to start a new "search"            *)
  searches,                 (* search threads: filter, level, copied, copy  *)
  search_thread_running,
  search_future,            (* its state and, when it is ready, the result  *)
  list,                     (* log_list_store: how often it holds a log     *)
  shows,                    (* what it is: logs, "searching", or of a search *)
  clicks,
  old, renewed              (* history: the logs before the last reset, and *)
                            (* that the list was made anew                  *)

vars == <<received, log_storage, log_buffer, log_level, filter_active, search_reset, reset_logs,
          text, gtk, searches, search_thread_running, search_future, list, shows, clicks, old,
          renewed>>

Future ==
  [state : {"invalid", "pending"}]
    \union [state : {"ready"}, filter : Filter, found : SUBSET Logs, aborted : BOOLEAN]

TypeOK ==
  /\ received \in 0 .. Cardinality(Logs) /\ old \in 0 .. received
  /\ log_storage \subseteq 1 .. received /\ Cardinality(log_storage) <= MaxStorage
  /\ log_buffer \subseteq log_storage /\ Cardinality(log_buffer) <= MaxBuffer
  /\ log_level \in Level /\ text \in Filter \union {""}
  /\ filter_active \in BOOLEAN /\ search_reset \in BOOLEAN /\ reset_logs \in BOOLEAN
  /\ gtk \in {"free", "stop", "search"} /\ search_thread_running \in BOOLEAN
  /\ \A s \in searches : s.filter \in Filter /\ s.copy \subseteq Logs
  /\ search_future \in Future
  /\ list \in [Logs -> Nat] /\ shows \in {"logs", "searching"} \union Filter
  /\ clicks \in 0 .. Clicks /\ renewed \in BOOLEAN

Nothing == [l \in Logs |-> 0]

Init ==
  /\ received = 0 /\ log_storage = {} /\ log_buffer = {}
  /\ log_level = 1 /\ filter_active = FALSE /\ search_reset = FALSE /\ reset_logs = FALSE
  /\ text = "" /\ gtk = "free"
  /\ searches = {} /\ search_thread_running = FALSE /\ search_future = [state |-> "pending"]
  /\ list = Nothing /\ shows = "logs"
  /\ clicks = 0 /\ old = 0 /\ renewed = FALSE

storage == <<received, log_storage, log_buffer>>
search == <<searches, search_thread_running, search_future>>
entry == <<text, filter_active, log_level>>
view == <<list, shows, renewed>>

Newest(logs, count) == {l \in logs : Cardinality({k \in logs : k > l}) < count}

-----------------------------------------------------------------------------
(* LogStorage: the reader thread.                                          *)
LogCallback ==
  /\ received < Cardinality(Logs) /\ received' = received + 1
  /\ log_storage' = Newest(log_storage \union {received'}, MaxStorage)
  /\ log_buffer' = Newest(log_buffer \union {received'}, MaxBuffer)
  /\ UNCHANGED <<search, entry, view, search_reset, reset_logs, gtk, clicks, old>>

(* perform_abortable_search works on a copy, with the level when it began, *)
(* and gives up when it is told to and has a log left to look at.          *)
Copy(s) ==
  /\ ~s.copied
  /\ searches' = (searches \ {s})
       \union {[s EXCEPT !.copied = TRUE, !.level = log_level, !.copy = log_storage]}
  /\ UNCHANGED search_future

Found(s) ==
  Newest({l \in s.copy : l \in Matches[s.filter] /\ LevelOf[l] <= s.level}, MaxBuffer)

SetValue(s) ==
  /\ s.copied
  /\ searches' = searches \ {s}
  /\ \/ search_future' =
          [state |-> "ready", filter |-> s.filter, found |-> Found(s), aborted |-> FALSE]
     \/ /\ ~search_thread_running /\ s.copy # {}
        /\ search_future' =
             [state |-> "ready", filter |-> s.filter, found |-> {}, aborted |-> TRUE]

SearchStep ==
  /\ \E s \in searches : Copy(s) \/ SetValue(s)
  /\ UNCHANGED <<storage, search_thread_running, entry, view, search_reset, reset_logs, gtk, clicks, old>>

-----------------------------------------------------------------------------
(* LoggerViewUI: the GTK thread.                                           *)
Click ==
  /\ gtk = "free" /\ clicks < Clicks /\ clicks' = clicks + 1
  /\ UNCHANGED <<storage, searches, search_future, view>>

(* search_changed, on_filter_type_changed; kill_search_thread begins.      *)
Type(filter) ==
  /\ Click /\ text' = filter /\ text' # text
  /\ filter_active' = TRUE /\ gtk' = "search"
  /\ search_thread_running' = FALSE
  /\ UNCHANGED <<log_level, search_reset, reset_logs, old>>

(* Mutant: the list is not made anew.                                      *)
KeepList == search_reset

NewList == TRUE

StopSearch ==
  /\ Click /\ text' = ""
  /\ filter_active' = FALSE /\ search_reset' = NewList /\ gtk' = "stop"
  /\ search_thread_running' = FALSE
  /\ UNCHANGED <<log_level, reset_logs, old>>

(* Mutant: the thread of the last search is left alone.                    *)
JoinNobody == TRUE

JoinSearch == searches = {}

(* kill_search_thread ends, and start_new_search_thread goes on.           *)
Killed ==
  /\ gtk # "free" /\ JoinSearch /\ gtk' = "free"
  /\ IF gtk = "search"
     THEN /\ search_thread_running' = TRUE /\ search_future' = [state |-> "pending"]
          /\ searches' = searches
               \union {[filter |-> text, level |-> 0, copied |-> FALSE, copy |-> {}]}
     ELSE UNCHANGED search
  /\ UNCHANGED <<storage, entry, view, search_reset, reset_logs, clicks, old>>

OnLogLevelChanged ==
  /\ Click /\ log_level' \in Level \ {log_level}
  /\ search_reset' = NewList
  /\ UNCHANGED <<text, filter_active, gtk, search_thread_running, reset_logs, old>>

(* reset, when a simulation starts.                                        *)
Reset ==
  /\ gtk = "free" /\ clicks < Clicks /\ clicks' = clicks + 1
  /\ reset_logs' = TRUE /\ old' = received
  /\ log_storage' = {} /\ log_buffer' = {}
  /\ UNCHANGED <<received, search, entry, view, search_reset, gtk>>

UpToLevel(logs) == {l \in logs : LevelOf[l] <= log_level}

(* get_recent_logs                                                         *)
RecentLogs == Newest(UpToLevel(log_storage), max_log_amount)

With(logs) == [l \in Logs |-> IF l \in logs THEN 1 ELSE 0]

(* delete_old_logs: the rows that stay.                                    *)
NewestRows ==
  LET room(l) == max_log_amount - SumFunctionOnSet(list, {k \in Logs : k > l})
  IN [l \in Logs |-> Max({0, Min({list[l], room(l)})})]

(* get_new_logs                                                            *)
Added(rows) == [l \in Logs |-> rows[l] + (IF l \in UpToLevel(log_buffer) THEN 1 ELSE 0)]

(* Mutant: what was listed is not removed from the buffer.                 *)
BufferKept == log_buffer

BufferTaken == {}

ShowReset ==
  /\ reset_logs /\ reset_logs' = FALSE
  /\ list' = Nothing
  /\ UNCHANGED <<log_buffer, search_future, search_reset, shows, renewed>>

ShowLogs ==
  /\ ~reset_logs /\ ~filter_active /\ shows' = "logs"
  /\ IF search_reset
     THEN /\ list' = With(RecentLogs)
          /\ search_reset' = FALSE /\ renewed' = TRUE
          /\ UNCHANGED log_buffer
     ELSE /\ list' = Added(NewestRows)
          /\ log_buffer' = BufferTaken
          /\ UNCHANGED <<search_reset, renewed>>
  /\ UNCHANGED <<reset_logs, search_future>>

ShowSearch ==
  /\ ~reset_logs /\ filter_active
  /\ \/ search_future.state = "invalid" /\ UNCHANGED <<list, shows, search_future>>
     \/ /\ search_future.state = "pending"
        /\ list' = Nothing /\ shows' = "searching" /\ UNCHANGED search_future
     \/ /\ search_future.state = "ready" /\ search_future' = [state |-> "invalid"]
        /\ list' = With(search_future.found) /\ shows' = search_future.filter
  /\ UNCHANGED <<log_buffer, search_reset, reset_logs, renewed>>

DispatcherCallback ==
  /\ gtk = "free"
  /\ ShowReset \/ ShowLogs \/ ShowSearch
  /\ UNCHANGED <<received, log_storage, searches, search_thread_running, entry, gtk, clicks, old>>

Next ==
  \/ LogCallback \/ SearchStep
  \/ StopSearch \/ Killed \/ OnLogLevelChanged \/ Reset \/ DispatcherCallback
  \/ \E filter \in Filter : Type(filter)

Fairness == WF_vars(SearchStep) /\ WF_vars(Killed) /\ WF_vars(DispatcherCallback)

Spec == Init /\ [][Next]_vars /\ Fairness

-----------------------------------------------------------------------------
(* A search that was given up, or was for another filter, is never shown.  *)
SearchIsForText ==
  (gtk = "free" /\ filter_active) =>
     /\ search_future.state = "ready" => search_future.filter = text /\ ~search_future.aborted
     /\ search_future.state = "invalid" =>
          shows = text /\ \A l \in Logs : list[l] > 0 => l \in Matches[text]

(* The newest logs of the level are listed or in the buffer.  Once a list  *)
(* was made anew, logs may be listed twice, which leaves room for half.    *)
Listed(logs) == \A l \in UpToLevel(logs) : list[l] > 0
Visible == Newest(log_storage, IF renewed THEN max_log_amount \div 2 ELSE max_log_amount)
NothingMissed ==
  (~filter_active /\ ~search_reset /\ ~reset_logs) => Listed(Visible \ log_buffer)

(* No log is listed twice, but those that were in the buffer when the list *)
(* was made anew.                                                          *)
NeverMoreThanTwice == \A l \in Logs : list[l] <= IF renewed THEN 2 ELSE 1

(* After a reset no older log is listed, except by a search.               *)
OldLogsGone ==
  (~reset_logs /\ shows = "logs") => \A l \in 1 .. old : list[l] = 0

(* When the user stops clicking the view ends up with the result for the   *)
(* text, or with the newest logs.                                          *)
FinallyShown ==
  <>[](IF filter_active THEN shows = text ELSE shows = "logs" /\ Listed(Visible))
=============================================================================
