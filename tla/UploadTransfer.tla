--------------------------- MODULE UploadTransfer ---------------------------
(***************************************************************************)
(* One large file on its way from the browser to the library: the session  *)
(* the API opens for it, its chunks, which the browser puts into object    *)
(* storage itself, and the completion that composes them.  The user        *)
(* pauses, reloads the page, chooses the file again or cancels; requests   *)
(* fail; sessions run out; every hour the API sweeps the chunks nobody     *)
(* will use any more.                                                      *)
(*                                                                         *)
(* A transfer is named by a number, and so is the session it opens.  The   *)
(* job a completion queues is in UploadProcess, the overwriting of an      *)
(* asset and the sharing of objects in AssetObjects.                       *)
(***************************************************************************)
EXTENDS Naturals, FiniteSets

CONSTANTS
  Transfers,   \* how often the user starts to upload the file (a bound)
  Chunks,      \* the number of chunks
  Lanes,       \* how many chunks are sent at the same time
  Pauses,      \* how often the user pauses (a bound)
  Environments \* which events can occur together, see EventKinds

EventKinds == {
  "pause",        \* the user pauses and resumes
  "reload",       \* the user reloads the page
  "cancel",       \* the user cancels a session of the list
  "rename",       \* the user has a file renamed whose name is taken
  "put_fails",    \* storing a chunk fails
  "lookup_fails", \* asking for a session fails
  "runs_out",     \* a session runs out while it is being completed
  "answer_lost",  \* the browser misses the answer of a request that is carried out
  "error" }       \* a request ends half-way: a call raises or the API process ends

ASSUME TransfersAssumption == Transfers \in Nat \ {0}
ASSUME ChunksAssumption == Chunks \in Nat \ {0}
ASSUME LanesAssumption == Lanes \in Nat \ {0}
ASSUME PausesAssumption == Pauses \in Nat
ASSUME EnvironmentsAssumption == Environments \subseteq SUBSET EventKinds

VARIABLES
  events,   \* what the environment may do in this behaviour
  transfer, \* how many transfers have been started
  flow,     \* where the last one is in transferUploads
  renaming, \* is nameConflict "rename", not "reject"?
  kept,     \* the session in localStorage, or 0
  using,    \* the session of each transfer
  pending,  \* the chunks a transfer has not taken up yet
  lane,     \* what each uploadChunk loop of each transfer does
  paused,   \* UploadPauseController.paused
  shown,    \* uploadPaused: does the dialog offer to resume?
  pauses,   \* how often the user has paused
  session,  \* upload_sessions.state; "expired" and "cancelled" ones are removed
  parts,    \* the chunk objects in storage
  old,      \* those last modified more than 24 hours ago
  composed, \* the sessions whose object is in storage
  assets,   \* the sessions whose asset is in the library
  call,     \* where the completion request of each transfer is
  cancel,   \* the session a user is cancelling, or 0
  cleared,  \* have its chunks been removed?
  sweep,    \* is cleanup_expired_upload_chunks about to remove chunks?
  active    \* the sessions it will spare

plan == <<transfer, renaming, using, pending, pauses>>
dialog == <<flow, kept, lane, paused, shown>>
storage == <<parts, old, composed>>
sweeping == <<sweep, active>>
cancelling == <<cancel, cleared>>
server == <<session, assets, call, cancelling, sweeping>>
vars == <<events, plan, dialog, storage, server>>

Ids == 1 .. Transfers
Numbers == 1 .. Chunks
LaneIds == 1 .. Lanes

(* Where a transfer can be, and where the request to complete it.          *)
Busy == {"asking", "opening", "preparing", "sending", "completing"}
Calling == {"checking", "composing", "storing", "closing", "clearing"}

Resting == [at |-> "ended", chunk |-> 0]

TypeOK ==
  /\ events \in Environments
  /\ transfer \in 0 .. Transfers
  /\ flow \in Busy \union {"idle", "done", "failed"}
  /\ renaming \in BOOLEAN
  /\ kept \in 0 .. Transfers
  /\ using \in [Ids -> 0 .. Transfers]
  /\ pending \in [Ids -> SUBSET Numbers]
  /\ lane \in [Ids -> [LaneIds -> [at : {"waiting", "sending"}, chunk : Numbers] \union {Resting}]]
  /\ \A t \in Ids : \A l \in LaneIds : lane[t][l] # Resting => using[t] \in Ids
  /\ paused \in BOOLEAN
  /\ shown \in BOOLEAN
  /\ pauses \in 0 .. Pauses
  /\ session \in [Ids -> {"none", "pending", "completed", "cancelled", "expired"}]
  /\ parts \subseteq Ids \X Numbers
  /\ old \subseteq parts
  /\ composed \subseteq Ids
  /\ assets \subseteq composed
  /\ call \in [Ids -> Calling \union {"none"}]
  /\ cancel \in 0 .. Transfers
  /\ cleared \in BOOLEAN
  /\ sweep \in BOOLEAN
  /\ active \subseteq Ids

Init ==
  /\ events \in Environments
  /\ transfer = 0
  /\ flow = "idle"
  /\ renaming = FALSE
  /\ kept = 0
  /\ using = [t \in Ids |-> 0]
  /\ pending = [t \in Ids |-> {}]
  /\ lane = [t \in Ids |-> [l \in LaneIds |-> Resting]]
  /\ paused = FALSE
  /\ shown = FALSE
  /\ pauses = 0
  /\ session = [s \in Ids |-> "none"]
  /\ parts = {}
  /\ old = {}
  /\ composed = {}
  /\ assets = {}
  /\ call = [t \in Ids |-> "none"]
  /\ cancel = 0
  /\ cleared = FALSE
  /\ sweep = FALSE
  /\ active = {}

-----------------------------------------------------------------------------
(* Helpers.                                                                *)

ChunksOf(s) == {s} \X Numbers
Complete(s) == ChunksOf(s) \subseteq parts

(* Sessions that can still be completed.                                   *)
Open(s) == session[s] = "pending"

UnderWay == {p \in Ids \X LaneIds : lane[p[1]][p[2]].at = "sending"}

(* The n-th of the chunks that are left.                                   *)
Nth(left, n) == CHOOSE c \in left : Cardinality({b \in left : b < c}) = n - 1

(* Every lane that waits for the user sends its chunk.                     *)
Woken(lanes) ==
  [t \in Ids |-> [l \in LaneIds |->
     IF lanes[t][l].at = "waiting"
       THEN [at |-> "sending", chunk |-> lanes[t][l].chunk]
       ELSE lanes[t][l]]]

(* Slip: without the finally of performUpload.                             *)
EndTransferOnly(end, lanes) ==
  /\ flow' = end
  /\ kept' = IF end = "done" THEN 0 ELSE kept
  /\ lane' = lanes
  /\ UNCHANGED <<paused, shown>>

(* Slip: a transfer that failed forgets its session.                       *)
EndTransferAnyway(end, lanes) ==
  /\ flow' = end
  /\ kept' = 0
  /\ lane' = Woken(lanes)
  /\ paused' = FALSE
  /\ shown' = FALSE

(* The transfer is over; its session is kept for the next try unless it is *)
(* done.  performUpload resumes in any case, so that no later upload finds *)
(* the controller paused.                                                  *)
EndTransfer(end, lanes) ==
  /\ flow' = end
  /\ kept' = IF end = "done" THEN 0 ELSE kept
  /\ lane' = Woken(lanes)
  /\ paused' = FALSE
  /\ shown' = FALSE

GoOn(lanes) ==
  /\ lane' = lanes
  /\ UNCHANGED <<flow, kept, paused, shown>>

(* The browser gets the answer of transfer t, if it still waits for it.    *)
Answer(t, end) ==
  IF t = transfer /\ flow = "completing" THEN EndTransfer(end, lane) ELSE GoOn(lane)

-----------------------------------------------------------------------------
(* The browser: uploadTransfer.ts and the handlers of App.vue.             *)

(* The name is looked up first: when it is taken, the user has to agree to *)
(* a renaming.  A file chosen by hand is matched by name and size with the *)
(* sessions the list offers, the newest first; "retry the failed ones"     *)
(* keeps the session it has.                                               *)
Offered == {s \in Ids : Open(s) /\ \A r \in Ids : Open(r) => r <= s}

Start ==
  /\ flow \notin Busy \union {"done"}
  /\ transfer < Transfers
  /\ assets = {} \/ "rename" \in events
  /\ transfer' = transfer + 1
  /\ renaming' = (assets # {})
  /\ kept' \in {kept} \union Offered
  /\ flow' = IF kept' = 0 THEN "opening" ELSE "asking"
  /\ shown' = FALSE
  /\ UNCHANGED <<events, using, pending, lane, paused, pauses, server, storage>>

(* A request is on its way at once, or when the user resumes.              *)
Request(c) == [at |-> IF paused THEN "waiting" ELSE "sending", chunk |-> c]

(* The lanes of transfer t set out with the chunks the session lacks.      *)
Prepare(s) ==
  LET missing == {c \in Numbers : <<s, c>> \notin parts}
      first == {c \in missing : Cardinality({b \in missing : b < c}) < Lanes}
  IN /\ using' = [using EXCEPT ![transfer] = s]
     /\ pending' = [pending EXCEPT ![transfer] = missing \ first]
     /\ lane' = [lane EXCEPT ![transfer] =
                   [l \in LaneIds |->
                      IF l <= Cardinality(first)
                        THEN Request(Nth(missing, l))
                        ELSE Resting]]
     /\ flow' = "sending"

(* The status of the session the browser remembers.  Without one, for      *)
(* whatever reason, it is forgotten and another one is opened.             *)
AskStatus ==
  /\ flow = "asking"
  /\ \/ /\ Open(kept)
        /\ Prepare(kept)
        /\ UNCHANGED kept
     \/ /\ ~Open(kept) \/ "lookup_fails" \in events
        /\ flow' = "opening"
        /\ kept' = 0
        /\ UNCHANGED <<using, pending, lane>>
  /\ UNCHANGED <<events, transfer, renaming, paused, shown, pauses, server, storage>>

(* initialize_upload: a name that is taken by now is refused unless the    *)
(* user has agreed to a renaming.                                          *)
OpenSession ==
  /\ flow = "opening"
  /\ assets = {} \/ renaming
  /\ session' = [session EXCEPT ![transfer] = "pending"]
  /\ \/ flow' = "preparing" /\ kept' = transfer /\ UNCHANGED <<lane, paused, shown>>
     \/ "answer_lost" \in events /\ EndTransfer("failed", lane)
  /\ UNCHANGED <<events, plan, storage, assets, call, cancelling, sweeping>>

Refuse ==
  /\ flow = "opening"
  /\ assets # {} /\ ~renaming
  /\ EndTransfer("failed", lane)
  /\ UNCHANGED <<events, plan, server, storage>>

(* The chunks of the session just opened.                                  *)
AskChunks ==
  /\ flow = "preparing"
  /\ Open(kept)
  /\ Prepare(kept)
  /\ UNCHANGED <<events, transfer, renaming, kept, paused, shown, pauses, server, storage>>

MissSession ==
  /\ flow = "preparing"
  /\ ~Open(kept) \/ "lookup_fails" \in events
  /\ EndTransfer("failed", lane)
  /\ UNCHANGED <<events, plan, server, storage>>

-----------------------------------------------------------------------------
(* The chunks: uploadPause.ts and object storage.                          *)

Store(chunks) ==
  /\ parts' = parts \union chunks
  /\ old' = old \ chunks

(* The chunk is stored, whatever has become of its session, and the lane   *)
(* takes up the next one.                                                  *)
StoreChunk(t, l) ==
  /\ lane[t][l].at = "sending"
  /\ Store({<<using[t], lane[t][l].chunk>>})
  /\ IF pending[t] = {}
       THEN lane' = [lane EXCEPT ![t][l] = Resting] /\ UNCHANGED pending
       ELSE LET next == Nth(pending[t], 1)
            IN /\ lane' = [lane EXCEPT ![t][l] = Request(next)]
               /\ pending' = [pending EXCEPT ![t] = @ \ {next}]
  /\ UNCHANGED <<events, transfer, renaming, flow, kept, using, paused, shown, pauses,
                 server, composed>>

(* Storing fails, or its answer is lost: this lane ends, and with it the   *)
(* transfer; its other lanes go on.                                        *)
FailChunk(t, l) ==
  /\ "put_fails" \in events
  /\ lane[t][l].at = "sending"
  /\ \/ Store({<<using[t], lane[t][l].chunk>>})
     \/ UNCHANGED <<parts, old>>
  /\ LET left == [lane EXCEPT ![t][l] = Resting]
     IN IF t = transfer /\ flow = "sending" THEN EndTransfer("failed", left) ELSE GoOn(left)
  /\ UNCHANGED <<events, plan, server, composed>>

(* The requests under way break off, some after their chunk was stored,    *)
(* and are sent again once the user has resumed.                           *)
Pause ==
  /\ "pause" \in events
  /\ flow \in Busy
  /\ ~shown
  /\ ~paused
  /\ pauses < Pauses
  /\ pauses' = pauses + 1
  /\ paused' = TRUE
  /\ shown' = TRUE
  /\ \E stored \in SUBSET UnderWay : Store({<<using[p[1]], lane[p[1]][p[2]].chunk>> : p \in stored})
  /\ lane' = [t \in Ids |-> [l \in LaneIds |->
                IF <<t, l>> \in UnderWay
                  THEN [at |-> "waiting", chunk |-> lane[t][l].chunk]
                  ELSE lane[t][l]]]
  /\ UNCHANGED <<events, transfer, renaming, flow, kept, using, pending, server, composed>>

Resume ==
  /\ flow \in Busy
  /\ shown
  /\ lane' = Woken(lane)
  /\ paused' = FALSE
  /\ shown' = FALSE
  /\ UNCHANGED <<events, plan, flow, kept, server, storage>>

(* The page and all it does are gone, but for localStorage.                *)
Reload ==
  /\ "reload" \in events
  /\ flow \in Busy
  /\ \E stored \in SUBSET UnderWay : Store({<<using[p[1]], lane[p[1]][p[2]].chunk>> : p \in stored})
  /\ EndTransfer("failed", [t \in Ids |-> [l \in LaneIds |-> Resting]])
  /\ UNCHANGED <<events, plan, server, composed>>

(* All chunks are there as far as the browser knows.                       *)
AskCompletion ==
  /\ flow = "sending"
  /\ \A l \in LaneIds : lane[transfer][l] = Resting
  /\ flow' = "completing"
  /\ call' = [call EXCEPT ![transfer] = "checking"]
  /\ UNCHANGED <<events, plan, kept, lane, paused, shown, session, storage, assets,
                 cancelling, sweeping>>

-----------------------------------------------------------------------------
(* complete_upload, as far as chunks are concerned.                        *)

Goto(t, step) == call' = [call EXCEPT ![t] = step]

(* Slip: an object is taken for granted.                                   *)
CheckSessionOnly(t) ==
  /\ call[t] = "checking"
  /\ \/ Open(using[t]) /\ Goto(t, "storing") /\ GoOn(lane)
     \/ session[using[t]] = "completed" /\ Goto(t, "none") /\ Answer(t, "done")
     \/ ~Open(using[t]) /\ session[using[t]] # "completed" /\ Goto(t, "none") /\ Answer(t, "failed")
  /\ UNCHANGED <<session, storage, assets>>

(* An object composed by an earlier request is not composed again.         *)
CheckSession(t) ==
  LET s == using[t]
  IN /\ call[t] = "checking"
     /\ \/ Open(s) /\ s \in composed /\ Goto(t, "storing") /\ GoOn(lane)
        \/ Open(s) /\ s \notin composed /\ Complete(s) /\ Goto(t, "composing") /\ GoOn(lane)
        \/ Open(s) /\ s \notin composed /\ ~Complete(s) /\ Goto(t, "none") /\ Answer(t, "failed")
        \/ session[s] = "completed" /\ Goto(t, "none") /\ Answer(t, "done")
        \/ ~Open(s) /\ session[s] # "completed" /\ Goto(t, "none") /\ Answer(t, "failed")
     /\ UNCHANGED <<session, storage, assets>>

Compose(t) ==
  /\ call[t] = "composing"
  /\ IF Complete(using[t])
       THEN composed' = composed \union {using[t]} /\ Goto(t, "storing") /\ GoOn(lane)
       ELSE UNCHANGED composed /\ Goto(t, "none") /\ Answer(t, "failed")
  /\ UNCHANGED <<session, parts, old, assets>>

(* The asset has the id the session gave it, however often this happens.   *)
StoreAsset(t) ==
  /\ call[t] = "storing"
  /\ assets' = assets \union {using[t]}
  /\ Goto(t, "closing")
  /\ GoOn(lane)
  /\ UNCHANGED <<session, storage>>

CloseSession(t) ==
  /\ call[t] = "closing"
  /\ session' = [session EXCEPT ![using[t]] = IF @ = "pending" THEN "completed" ELSE @]
  /\ Goto(t, "clearing")
  /\ GoOn(lane)
  /\ UNCHANGED <<storage, assets>>

DeleteChunks(s) ==
  /\ parts' = parts \ ChunksOf(s)
  /\ old' = old \ ChunksOf(s)

(* A failure to remove the chunks is only logged.                          *)
ClearChunks(t) ==
  /\ call[t] = "clearing"
  /\ DeleteChunks(using[t]) \/ ("error" \in events /\ UNCHANGED <<parts, old>>)
  /\ Goto(t, "none")
  /\ Answer(t, "done")
  /\ UNCHANGED <<session, composed, assets>>

Raise(t) ==
  /\ "error" \in events
  /\ call[t] \in Calling
  /\ Goto(t, "none")
  /\ Answer(t, "failed")
  /\ UNCHANGED <<session, storage, assets>>

CompleteUpload(t) ==
  /\ \/ CheckSession(t) \/ Compose(t) \/ StoreAsset(t) \/ CloseSession(t) \/ ClearChunks(t)
     \/ Raise(t)
  /\ UNCHANGED <<events, plan, cancelling, sweeping>>

(* The browser gives up, the request goes on.                              *)
LoseAnswer ==
  /\ "answer_lost" \in events
  /\ flow = "completing"
  /\ EndTransfer("failed", lane)
  /\ UNCHANGED <<events, plan, server, storage>>

-----------------------------------------------------------------------------
(* Cancellation, expiry and the hourly sweep.                              *)

StartCancel ==
  /\ "cancel" \in events
  /\ cancel = 0
  /\ \E s \in Ids : Open(s) /\ cancel' = s
  /\ cleared' = FALSE
  /\ UNCHANGED <<events, plan, dialog, session, storage, assets, call, sweeping>>

ClearCancelled ==
  /\ cancel # 0
  /\ ~cleared
  /\ DeleteChunks(cancel)
  /\ cleared' = TRUE
  /\ UNCHANGED <<events, plan, dialog, session, composed, assets, call, cancel, sweeping>>

(* The session is removed even if it has been completed meanwhile.         *)
RemoveSession ==
  /\ cancel # 0
  /\ cleared
  /\ session' = [session EXCEPT ![cancel] = IF @ = "expired" THEN @ ELSE "cancelled"]
  /\ cancel' = 0
  /\ UNCHANGED <<events, plan, dialog, storage, assets, call, cleared, sweeping>>

(* A session lives for 24 hours, completed or not.                         *)
Expire ==
  /\ \E s \in Ids :
       /\ session[s] \in {"pending", "completed"}
       /\ "runs_out" \in events \/ \A t \in Ids : using[t] = s => call[t] = "none"
       /\ session' = [session EXCEPT ![s] = "expired"]
  /\ UNCHANGED <<events, plan, dialog, storage, assets, call, cancelling, sweeping>>

(* A chunk is younger than its session, so it is not old before the        *)
(* session has run out.                                                    *)
Age ==
  /\ \E p \in parts \ old :
       /\ session[p[1]] \in {"cancelled", "expired"}
       /\ old' = old \union {p}
  /\ UNCHANGED <<events, plan, dialog, server, parts, composed>>

(* cleanup_expired_upload_chunks reads which sessions there are ...        *)
ReadActive ==
  /\ ~sweep
  /\ parts # {}
  /\ sweep' = TRUE
  /\ active' = {s \in Ids : session[s] \in {"pending", "completed"}}
  /\ UNCHANGED <<events, plan, dialog, session, storage, assets, call, cancelling>>

(* Slip: without the age of the chunks.                                    *)
UnusedSinceRead == {p \in parts : p[1] \notin active}

(* Slip: sessions that ran out, but not those that were cancelled.         *)
UnusedOfExpired == {p \in old : session[p[1]] = "expired"}

(* ... and then removes the old chunks of all others: a session opened     *)
(* between the two is not among those it read, but its chunks are new.     *)
Unused == {p \in old : p[1] \notin active}

RemoveUnused ==
  /\ sweep
  /\ parts' = parts \ Unused
  /\ old' = old \ Unused
  /\ sweep' = FALSE
  /\ active' = {}
  /\ UNCHANGED <<events, plan, dialog, session, composed, assets, call, cancelling>>

-----------------------------------------------------------------------------
Browse == AskStatus \/ OpenSession \/ Refuse \/ AskChunks \/ MissSession \/ AskCompletion

Next ==
  \/ Start \/ Browse
  \/ Pause \/ Resume \/ Reload \/ LoseAnswer
  \/ \E t \in Ids, l \in LaneIds : StoreChunk(t, l) \/ FailChunk(t, l)
  \/ \E t \in Ids : CompleteUpload(t)
  \/ StartCancel \/ ClearCancelled \/ RemoveSession
  \/ Expire \/ Age \/ ReadActive \/ RemoveUnused

Spec == Init /\ [][Next]_vars

(* Requests are answered, a user who paused resumes, sessions run out and  *)
(* the API, restarted when it ends, sweeps every hour.  Nothing makes the  *)
(* user start, pause, reload or cancel.                                    *)
Fairness ==
  /\ WF_vars(Browse)
  /\ WF_vars(Resume)
  /\ \A t \in Ids : \A l \in LaneIds : WF_vars(StoreChunk(t, l))
  /\ \A t \in Ids : WF_vars(CompleteUpload(t))
  /\ WF_vars(ClearCancelled \/ RemoveSession)
  /\ WF_vars(Expire)
  /\ WF_vars(Age)
  /\ WF_vars(ReadActive)
  /\ WF_vars(RemoveUnused)

FairSpec == Spec /\ Fairness

-----------------------------------------------------------------------------
(* Properties.                                                             *)

(* "服务启动后每小时检查一次并清除失效会话遗留的分片": the sweep removes no  *)
(* chunk of a session that can still be completed, also when the session   *)
(* was opened or a chunk stored while it ran.                              *)
SweepSparesOpen ==
  [][sweep /\ ~sweep' => \A p \in parts \ parts' : ~Open(p[1])]_vars

(* However often a transfer fails, is paused, reloaded and started again,  *)
(* the file becomes one asset: "未明确选择时拒绝同名上传".  The name is      *)
(* checked when a session is opened, so it does not hold when a completion *)
(* goes on behind the user's back and its session is given up for another. *)
GoesOn == events \intersect {"reload", "answer_lost"} # {}
GivesUp == events \intersect {"cancel", "runs_out", "lookup_fails"} # {}
UploadsAreSingle == ("rename" \notin events /\ ~(GoesOn /\ GivesUp)) => Cardinality(assets) <= 1

(* The same without a condition, for a user who agrees to no renaming.     *)
NamesAreSingle == "rename" \notin events => Cardinality(assets) <= 1

(* No chunk stays in storage for ever, also when lanes of a failed         *)
(* transfer store them after the session was completed or cancelled.       *)
ChunksAreRemoved == <>[](parts = {})

(* A transfer comes to an end, in success or with a message; no pause      *)
(* outlives the transfer it was meant for.                                 *)
TransfersEnd == flow \in Busy ~> flow \notin Busy
=============================================================================
