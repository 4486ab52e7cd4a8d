---------------------------- MODULE AssetProofs ----------------------------
(***************************************************************************)
(* Proofs about assets.  AssetObjects: their types, and that no file goes  *)
(* and no object stays that should not.  Catalogue: that the metrics, tags *)
(* and formats they refer to are defined.                                  *)
(***************************************************************************)
EXTENDS AssetObjects, Catalogue, TLAPS

(* The facts that carry TypeOK: an asset has an object key, a session has  *)
(* one from its start, and a task that writes an asset has one to write.   *)
KeysAreSet ==
  /\ \A a \in Uploads : Stored(a) => key[a] # NoKey
  /\ \A u \in Uploads : session[u] # "none" => file[u] # NoKey
  /\ \A u \in storing : session[u] # "none"
  /\ \A u \in Uploads : task[u] \in {"removing", "updating"} => chosen[u] # NoKey
  /\ \A u \in Uploads : task[u] = "updating" => own[u] # NoKey

TypeInv == TypeOK /\ KeysAreSet

LEMMA TypeInit == Init => TypeInv
<1> SUFFICES ASSUME Init PROVE TypeInv
  OBVIOUS
<1>1. TypeOK
  BY EnvironmentsAssumption DEF Init, TypeOK, Keys, Hashes, Running, NoItem
<1>2. KeysAreSet
  BY DEF Init, KeysAreSet, Stored
<1> QED
  BY <1>1, <1>2 DEF TypeInv

LEMMA UploadKeepsTypes ==
  ASSUME TypeInv, NEW u \in Uploads, Upload(u)
  PROVE  TypeInv'
<1> USE DEF TypeInv, Keys, Hashes, Stored
<1>1. CASE Initialize(u)
  <2> USE <1>1, NoKeyAssumption DEF Initialize, OpenTransfer, OpenReuse, Declare, SameContent,
      Active, assets, tasks, trash, Running
  <2>1. TypeOK'
    BY SMTT(40) DEF TypeOK, KeysAreSet
  <2>2. KeysAreSet'
    BY DEF TypeOK, KeysAreSet
  <2> QED
    BY <2>1, <2>2
<1>2. CASE Put(u)
  <2> USE <1>2 DEF Put, sessions, assets, tasks, trash
  <2>1. TypeOK'
    BY DEF TypeOK
  <2>2. KeysAreSet'
    BY DEF KeysAreSet
  <2> QED
    BY <2>1, <2>2
<1>3. CASE ReadTarget(u)
  <2> USE <1>3 DEF ReadTarget, assets, tasks, trash
  <2>1. TypeOK'
    BY DEF TypeOK
  <2>2. KeysAreSet'
    BY DEF KeysAreSet
  <2> QED
    BY <2>1, <2>2
<1>4. CASE StoreAsset(u)
  <2> USE <1>4, NoKeyAssumption DEF StoreAsset, Goto, assets, trash
  <2>1. TypeOK'
    BY DEF TypeOK, Running
  <2>2. KeysAreSet'
    BY DEF TypeOK, KeysAreSet
  <2> QED
    BY <2>1, <2>2
<1> QED
  BY <1>1, <1>2, <1>3, <1>4 DEF Upload

LEMMA TrashKeepsTypes ==
  ASSUME TypeInv, \/ EmptyTrash
                  \/ \E a \in Uploads : Archive(a) \/ Restore(a)
  PROVE  TypeInv'
<1> USE DEF TypeInv, sessions, assets, tasks, trash, Keys, Stored
<1>1. ASSUME NEW a \in Uploads, Archive(a) \/ Restore(a)
      PROVE  TypeInv'
  <2>1. TypeOK'
    BY <1>1 DEF Archive, Restore, TypeOK
  <2>2. KeysAreSet'
    BY <1>1 DEF Archive, Restore, KeysAreSet
  <2> QED
    BY <2>1, <2>2
<1>2. CASE ListTrash
  <2>1. TypeOK'
    BY <1>2 DEF ListTrash, TypeOK
  <2>2. KeysAreSet'
    BY <1>2 DEF ListTrash, KeysAreSet
  <2> QED
    BY <2>1, <2>2
<1>3. CASE CountReferences \/ RemoveListed
  <2>1. TypeOK'
    BY <1>3 DEF CountReferences, RemoveListed, TypeOK
  <2>2. KeysAreSet'
    BY <1>3 DEF CountReferences, RemoveListed, KeysAreSet
  <2> QED
    BY <2>1, <2>2
<1>4. CASE DeleteAsset
  <2>1. TypeOK'
    BY <1>4 DEF DeleteAsset, NextItem, NoItem, Hashes, TypeOK
  <2>2. KeysAreSet'
    BY <1>4 DEF DeleteAsset, KeysAreSet, TypeOK
  <2> QED
    BY <2>1, <2>2
<1>5. CASE SkipAsset
  <2>1. TypeOK'
    BY <1>5 DEF SkipAsset, NextItem, NoItem, TypeOK
  <2>2. KeysAreSet'
    BY <1>5 DEF SkipAsset, KeysAreSet
  <2> QED
    BY <2>1, <2>2
<1> QED
  BY <1>1, <1>2, <1>3, <1>4, <1>5 DEF EmptyTrash

LEMMA ProcessKeepsTypes ==
  ASSUME TypeInv, NEW u \in Uploads, Process(u)
  PROVE  TypeInv'
<1> USE DEF TypeInv, sessions, assets, trash, Keys, Stored, Goto, Leave, SetStatus
<1>1. CASE Take(u) \/ ReadAsset(u)
  <2>1. TypeOK'
    BY SMTT(40), <1>1 DEF Take, ReadAsset, TypeOK, KeysAreSet, Running
  <2>2. KeysAreSet'
    BY <1>1 DEF Take, ReadAsset, TypeOK, KeysAreSet
  <2> QED
    BY <2>1, <2>2
<1>2. CASE Work(u)
  <2>1. TypeOK'
    BY <1>2 DEF Work, TypeOK, Running
  <2>2. KeysAreSet'
    BY <1>2 DEF Work, TypeOK, KeysAreSet
  <2> QED
    BY <2>1, <2>2
<1>3. CASE Search(u)
  <2>1. \A d \in Duplicates(u) : d \in Uploads /\ key[d] # NoKey
    BY DEF Duplicates, SameContent, Active, KeysAreSet
  <2>2. TypeOK'
    BY <1>3, <2>1 DEF Search, TypeOK, Running
  <2>3. KeysAreSet'
    BY <1>3, <2>1 DEF Search, TypeOK, KeysAreSet
  <2> QED
    BY <2>2, <2>3
<1>4. CASE RemoveOwn(u)
  <2>1. TypeOK'
    BY <1>4 DEF RemoveOwn, TypeOK, Running
  <2>2. KeysAreSet'
    BY <1>4 DEF RemoveOwn, TypeOK, KeysAreSet
  <2> QED
    BY <2>1, <2>2
<1>5. CASE Update(u)
  <2>1. own[u] \in Uploads /\ chosen[u] # NoKey
    BY <1>5 DEF Update, TypeOK, KeysAreSet
  <2>2. TypeOK'
    BY <1>5, <2>1 DEF Update, TypeOK, Hashes, Running
  <2>3. KeysAreSet'
    BY <1>5, <2>1 DEF Update, TypeOK, KeysAreSet
  <2> QED
    BY <2>2, <2>3
<1>6. CASE CheckReplaced(u) \/ RemoveReplaced(u) \/ Finish(u) \/ Raise(u)
  <2>1. TypeOK'
    BY <1>6 DEF CheckReplaced, RemoveReplaced, Finish, Raise, TypeOK, Running
  <2>2. KeysAreSet'
    BY <1>6 DEF CheckReplaced, RemoveReplaced, Finish, Raise, TypeOK, KeysAreSet
  <2> QED
    BY <2>1, <2>2
<1>7. CASE FailAsset(u) \/ Retry(u)
  <2>1. TypeOK'
    BY <1>7 DEF FailAsset, Retry, TypeOK, Running
  <2>2. KeysAreSet'
    BY <1>7 DEF FailAsset, Retry, TypeOK, KeysAreSet
  <2> QED
    BY <2>1, <2>2
<1> QED
  BY <1>1, <1>2, <1>3, <1>4, <1>5, <1>6, <1>7 DEF Process

LEMMA TypeInvariant == Spec => []TypeInv
<1>1. TypeInv /\ UNCHANGED vars => TypeInv'
  BY DEF TypeInv, TypeOK, KeysAreSet, Stored, vars, sessions, assets, tasks, trash
<1>2. TypeInv /\ [Next]_vars => TypeInv'
  BY <1>1, UploadKeepsTypes, ProcessKeepsTypes, TrashKeepsTypes DEF Next
<1> QED
  BY TypeInit, <1>2, PTL DEF Spec

(* Every state of the asset library has the types its code relies on: in   *)
(* particular a task has the object key it works with.                     *)
THEOREM TypeCorrect == Spec => []TypeOK
<1>1. TypeInv => TypeOK
  BY DEF TypeInv
<1> QED
  BY <1>1, TypeInvariant, PTL

LEMMA EventsFixed == ASSUME [Next]_vars PROVE events' = events /\ content' = content
<1>1. ASSUME NEW u \in Uploads, Upload(u) PROVE events' = events /\ content' = content
  BY <1>1 DEF Upload, Initialize, Put, ReadTarget, StoreAsset
<1>2. ASSUME NEW u \in Uploads, Process(u) PROVE events' = events /\ content' = content
  BY <1>2 DEF Process, Take, ReadAsset, Work, Search, RemoveOwn, Update, CheckReplaced,
     RemoveReplaced, Finish, Raise, FailAsset, Retry
<1>3. ASSUME NEW a \in Uploads, Archive(a) \/ Restore(a) PROVE events' = events /\ content' = content
  BY <1>3 DEF Archive, Restore
<1>4. CASE EmptyTrash
  BY <1>4 DEF EmptyTrash, ListTrash, CountReferences, RemoveListed, DeleteAsset, SkipAsset
<1> QED
  BY <1>1, <1>2, <1>3, <1>4 DEF Next, vars

(* An upload stores its asset once, and its task begins with that.         *)
Completed(u) == session[u] = "completed"

StoresOnce ==
  /\ \A u \in storing : session[u] \in {"pending", "reused"}
  /\ \A u \in Uploads : task[u] # "unsent" => Completed(u)

LEMMA StoresOnceInvariant == Spec => []StoresOnce
<1>1. Init => StoresOnce
  BY DEF Init, StoresOnce
<1>2. TypeInv /\ StoresOnce /\ [Next]_vars => StoresOnce'
  <2> SUFFICES ASSUME TypeInv, StoresOnce, [Next]_vars PROVE StoresOnce'
    OBVIOUS
  <2> USE DEF StoresOnce, Completed, TypeInv, TypeOK
  <2>1. ASSUME NEW u \in Uploads, Upload(u) PROVE StoresOnce'
    BY <2>1 DEF Upload, Initialize, OpenTransfer, OpenReuse, Put, ReadTarget, StoreAsset, Goto, tasks, sessions
  <2>2. ASSUME NEW u \in Uploads, Process(u) PROVE StoresOnce'
    <3>1. UNCHANGED sessions /\ task[u] # "unsent" /\ \A v \in Uploads : v # u => task'[v] = task[v]
      BY <2>2 DEF Process, Take, ReadAsset, Work, Search, RemoveOwn, Update, CheckReplaced,
         RemoveReplaced, Finish, Raise, FailAsset, Retry, Goto, Leave, Running
    <3> QED BY <3>1 DEF sessions
  <2>3. CASE UNCHANGED <<sessions, tasks>>
    BY <2>3 DEF sessions, tasks
  <2>4. ASSUME NEW a \in Uploads, Archive(a) \/ Restore(a) PROVE StoresOnce'
    BY <2>3, <2>4 DEF Archive, Restore
  <2>5. CASE EmptyTrash
    BY <2>3, <2>5 DEF EmptyTrash, ListTrash, CountReferences, RemoveListed, DeleteAsset, SkipAsset
  <2> QED
    BY <2>1, <2>2, <2>3, <2>4, <2>5 DEF Next, vars
<1> QED
  BY <1>1, <1>2, TypeInvariant, PTL DEF Spec

-----------------------------------------------------------------------------
(* Orphans.  No asset is overwritten: an asset belongs to its upload.      *)

NoOverwriting ==
  /\ "overwrite" \notin events
  /\ "restore" \in events => events \intersect {"pool", "busy"} = {}

(* Only uploads whose asset has been stored have given their key away.     *)
KeysAreCompleted ==
  /\ \A u \in Uploads : target[u] = u /\ previous[u] = NoKey
  /\ \A u \in Uploads : session[u] \in {"none", "pending"} => file[u] \in {u, NoKey}
  /\ \A u \in Uploads : session[u] = "reused" => Completed(file[u])
  /\ \A u \in Uploads : Stored(u) => Completed(u)
  /\ \A u \in Uploads : Completed(u) => Completed(file[u])
  /\ \A u \in Uploads : Stored(u) => Completed(key[u])
  /\ \A u \in Uploads : task[u] \in {"working", "searching", "removing", "updating"} => Completed(own[u])
  /\ \A u \in Uploads : task[u] \in {"removing", "updating"} => Completed(chosen[u])
  /\ \A e \in listed : Completed(e[1]) /\ Completed(e[2]) /\ e[2] # NoKey /\ ~Active(e[1])
  /\ sweep = "idle" => listed = {}
  /\ sweep \in {"removing", "deleting"} => item \in listed
  /\ \A a \in archived : Stored(a)

(* Before a task gives its asset another object it has removed the own.    *)
OwnGoesFirst ==
  \A u \in Uploads :
    /\ task[u] \in {"working", "searching", "removing", "updating"} /\ Stored(u) => key[u] = own[u]
    /\ task[u] = "updating" /\ chosen[u] # own[u] => own[u] \notin objects

(* Asset a refers to object k, and the list of the trash knows it.         *)
Holds(a, k) == Stored(a) /\ key[a] = k /\ \A e \in listed : e[1] = a => e[2] = k

ObjectsAreHeld ==
  /\ \A k \in objects : session[k] = "pending" \/ \E a \in Uploads : Holds(a, k)
  /\ sweep = "deleting" /\ item[2] \in objects =>
       \E a \in Uploads : Holds(a, item[2]) /\ \A e \in listed : e[1] # a

HeldFacts == KeysAreCompleted /\ OwnGoesFirst /\ ObjectsAreHeld

HeldInv == NoOverwriting => HeldFacts

LEMMA UploadKeepsHeld ==
  ASSUME TypeInv, StoresOnce, NoOverwriting, HeldFacts, NEW u \in Uploads, Upload(u)
  PROVE  HeldFacts'
<1> USE DEF HeldFacts, TypeInv
<1>1. target[u] = u /\ u \in Uploads
  BY DEF KeysAreCompleted
<1>2. CASE Initialize(u)
  <2> USE <1>2 DEF Initialize, assets, tasks, trash
  <2>1. session[u] = "none" /\ session'[u] \in {"pending", "reused"} /\ target'[u] = u
    BY DEF NoOverwriting, OpenTransfer, OpenReuse, TypeOK
  <2>2. \A v \in Uploads : /\ v # u => session'[v] = session[v] /\ file'[v] = file[v] /\ target'[v] = target[v]
                           /\ Completed(v)' <=> Completed(v)
    BY <2>1 DEF OpenTransfer, OpenReuse, TypeOK, Completed
  <2>3. /\ session'[u] = "pending" => file'[u] = u
        /\ session'[u] = "reused" => file'[u] \in Uploads /\ Completed(file'[u])
    BY DEF OpenTransfer, OpenReuse, SameContent, Active, TypeOK, Keys, KeysAreSet, KeysAreCompleted
  <2>4. KeysAreCompleted'
    <3>1. \A e \in listed : e[1] \in Uploads /\ e[2] \in Uploads
      BY DEF KeysAreCompleted, TypeOK, Keys
    <3>2. \A v \in Uploads :
            /\ target'[v] = v /\ previous'[v] = NoKey
            /\ session'[v] \in {"none", "pending"} => file'[v] \in {v, NoKey}
            /\ session'[v] = "reused" => Completed(file[v])' /\ file'[v] \in Uploads
            /\ Completed(v)' => Completed(file[v])' /\ file'[v] \in Uploads
      BY <2>1, <2>2, <2>3 DEF KeysAreCompleted, KeysAreSet, TypeOK, Keys, Completed
    <3>3. \A v \in Uploads :
            /\ Stored(v) => key[v] \in Uploads
            /\ task[v] \in {"working", "searching", "removing", "updating"} => own[v] \in Uploads
            /\ task[v] \in {"removing", "updating"} => chosen[v] \in Uploads
      BY DEF KeysAreSet, TypeOK, Keys
    <3> QED
      BY <2>2, <3>1, <3>2, <3>3 DEF KeysAreCompleted, Stored, Active
  <2>5. OwnGoesFirst'
    BY DEF OwnGoesFirst, Stored
  <2>6. ObjectsAreHeld'
    BY <2>1, <2>2 DEF ObjectsAreHeld, Holds, Stored, TypeOK
  <2> QED
    BY <2>4, <2>5, <2>6
<1>3. CASE Put(u)
  <2> USE <1>3 DEF Put, sessions, assets, tasks, trash
  <2>1. session[u] = "pending" /\ ~Completed(u)
    BY DEF Completed
  <2>2. KeysAreCompleted'
    BY DEF KeysAreCompleted, Stored, Active, Completed
  <2>3. OwnGoesFirst'
    BY <2>1 DEF OwnGoesFirst, KeysAreCompleted, Stored
  <2>4. ObjectsAreHeld'
    BY <2>1 DEF ObjectsAreHeld, KeysAreCompleted, Holds, Stored
  <2> QED
    BY <2>2, <2>3, <2>4
<1>4. CASE ReadTarget(u)
  <2> USE <1>4, <1>1 DEF ReadTarget, assets, tasks, trash
  <2>1. KeysAreCompleted'
    BY DEF KeysAreCompleted, Stored, Active, Completed
  <2>2. OwnGoesFirst' /\ ObjectsAreHeld'
    BY DEF OwnGoesFirst, ObjectsAreHeld, Holds, Stored
  <2> QED
    BY <2>1, <2>2
<1>5. CASE StoreAsset(u)
  <2>1. session[u] \in {"pending", "reused"} /\ ~Completed(u) /\ ~Stored(u) /\ task[u] = "unsent"
    BY <1>5 DEF StoreAsset, StoresOnce, Completed, KeysAreCompleted
  <2>2. file[u] \in Uploads /\ (file[u] = u \/ Completed(file[u])) /\ (session[u] = "pending" => file[u] = u)
    BY <2>1 DEF KeysAreCompleted, KeysAreSet, TypeOK, Keys
  <2>3. /\ key'[u] = file[u] /\ Completed(u)' /\ Stored(u)'
        /\ archived' = archived \ {u}
        /\ task'[u] = "queued"
    BY <1>1, <1>5 DEF StoreAsset, Completed, Stored, Goto, TypeOK
  <2>4. \A v \in Uploads :
          /\ Completed(v) => Completed(v)'
          /\ v # u => /\ session'[v] = session[v] /\ status'[v] = status[v] /\ key'[v] = key[v]
                      /\ task'[v] = task[v] /\ (Stored(v)' <=> Stored(v)) /\ (Active(v)' <=> Active(v))
    BY <1>1, <1>5 DEF StoreAsset, Completed, Stored, Active, Goto, TypeOK
  <2>5. UNCHANGED <<target, file, previous, own, chosen, listed, item, sweep, objects>>
    BY <1>5 DEF StoreAsset, trash
  <2>6. \A e \in listed : e[1] \in Uploads /\ e[1] # u /\ e[2] \in Uploads
    BY <2>1 DEF KeysAreCompleted, TypeOK, Keys
  <2>7. KeysAreCompleted'
    BY <2>1, <2>2, <2>3, <2>4, <2>5, <2>6 DEF KeysAreCompleted, KeysAreSet, TypeOK, Keys, Completed
  <2>8. OwnGoesFirst'
    BY <2>3, <2>4, <2>5 DEF OwnGoesFirst
  <2>9. \A a \in Uploads : \A k : Holds(a, k) => Holds(a, k)'
    BY <2>1, <2>4, <2>5 DEF Holds
  <2>10. Holds(u, file[u])'
    BY <2>3, <2>5, <2>6 DEF Holds
  <2>11. ObjectsAreHeld'
    <3>1. ASSUME NEW k \in objects PROVE session'[k] = "pending" \/ \E a \in Uploads : Holds(a, k)'
      <4>1. k \in Uploads
        BY DEF TypeOK
      <4>2. CASE \E a \in Uploads : Holds(a, k)
        BY <2>9, <4>2
      <4>3. CASE session[k] = "pending" /\ k = u
        BY <2>2, <2>5, <2>10, <4>3
      <4>4. CASE session[k] = "pending" /\ k # u
        BY <2>4, <4>1, <4>4
      <4> QED
        BY <4>2, <4>3, <4>4 DEF ObjectsAreHeld
    <3> QED
      BY <2>5, <2>9, <3>1 DEF ObjectsAreHeld
  <2> QED
    BY <2>7, <2>8, <2>11
<1> QED
  BY <1>2, <1>3, <1>4, <1>5 DEF Upload

LEMMA ProcessKeepsHeld ==
  ASSUME TypeInv, StoresOnce, NoOverwriting, HeldFacts, NEW u \in Uploads, Process(u)
  PROVE  HeldFacts'
<1> USE DEF HeldFacts, TypeInv
<1>1. target[u] = u /\ previous[u] = NoKey /\ u \in Uploads
  BY DEF KeysAreCompleted
<1>2. CASE ReadAsset(u)
  <2>1. UNCHANGED <<objects, sessions, assets, trash, chosen>>
    BY <1>2 DEF ReadAsset
  <2>2. \A v \in Uploads : v # u => task'[v] = task[v] /\ own'[v] = own[v]
    BY <1>2 DEF ReadAsset, Goto, TypeOK
  <2>3. task'[u] = "failing" \/ (task'[u] = "working" /\ Stored(u) /\ own'[u] = key[u])
    BY <1>1, <1>2 DEF ReadAsset, Goto, TypeOK
  <2>4. KeysAreCompleted' /\ OwnGoesFirst'
    BY <2>1, <2>2, <2>3 DEF KeysAreCompleted, OwnGoesFirst, Stored, Active, Completed, sessions, assets, trash
  <2>5. ObjectsAreHeld'
    BY <2>1 DEF ObjectsAreHeld, Holds, Stored, sessions, assets, trash
  <2> QED
    BY <2>4, <2>5
<1>3. CASE Search(u)
  <2>1. UNCHANGED <<objects, sessions, assets, trash, own>> /\ task[u] = "searching"
    BY <1>3 DEF Search
  <2>2. \A v \in Uploads : v # u => task'[v] = task[v] /\ chosen'[v] = chosen[v]
    BY <1>3 DEF Search, Goto, TypeOK
  <2>3. /\ Completed(chosen'[u])
        /\ task'[u] = IF chosen'[u] = own[u] THEN "updating" ELSE "removing"
    BY <1>3 DEF Search, Duplicates, SameContent, Active, Goto, TypeOK, KeysAreCompleted
  <2>4. KeysAreCompleted' /\ OwnGoesFirst'
    BY <2>1, <2>2, <2>3 DEF KeysAreCompleted, OwnGoesFirst, Stored, Active, Completed, sessions, assets, trash
  <2>5. ObjectsAreHeld'
    BY <2>1 DEF ObjectsAreHeld, Holds, Stored, sessions, assets, trash
  <2> QED
    BY <2>4, <2>5
<1>4. CASE RemoveOwn(u)
  <2>1. UNCHANGED <<sessions, assets, trash, own, chosen>> /\ task[u] = "removing" /\ objects' = objects \ {own[u]}
    BY <1>4 DEF RemoveOwn
  <2>2. task'[u] = "updating" /\ \A v \in Uploads : v # u => task'[v] = task[v]
    BY <1>4 DEF RemoveOwn, Goto, TypeOK
  <2>3. KeysAreCompleted' /\ OwnGoesFirst'
    BY <2>1, <2>2 DEF KeysAreCompleted, OwnGoesFirst, Stored, Active, Completed, sessions, assets, trash
  <2>4. ObjectsAreHeld'
    BY <2>1 DEF ObjectsAreHeld, Holds, Stored, sessions, assets, trash
  <2> QED
    BY <2>3, <2>4
<1>5. CASE Update(u)
  <2>1. UNCHANGED <<objects, sessions, archived, trash, own, chosen>> /\ task[u] = "updating"
    BY <1>5 DEF Update
  <2>2. task'[u] = "checking" /\ \A v \in Uploads : v # u => task'[v] = task[v]
    BY <1>5 DEF Update, Goto, TypeOK
  <2>3. /\ Stored(u) => key'[u] = chosen[u]
        /\ ~Stored(u) => key'[u] = key[u]
        /\ \A v \in Uploads : v # u => key'[v] = key[v]
        /\ \A v \in Uploads : (Stored(v)' <=> Stored(v)) /\ (Active(v)' <=> Active(v))
    BY <1>1, <1>5 DEF Update, SetStatus, Stored, Active, TypeOK
  <2>4. KeysAreCompleted'
    BY <2>1, <2>2, <2>3 DEF KeysAreCompleted, Completed, sessions, trash, TypeOK
  <2>5. OwnGoesFirst'
    BY <2>1, <2>2, <2>3 DEF OwnGoesFirst
  <2>6. \A a \in Uploads, k \in objects : Holds(a, k) => Holds(a, k)'
    BY <2>1, <2>3 DEF OwnGoesFirst, Holds, trash
  <2>7. ObjectsAreHeld'
    BY <2>1, <2>6 DEF ObjectsAreHeld, sessions, trash
  <2> QED
    BY <2>4, <2>5, <2>7
<1>6. CASE Take(u) \/ Work(u) \/ CheckReplaced(u) \/ RemoveReplaced(u) \/ Finish(u) \/ Raise(u)
           \/ FailAsset(u) \/ Retry(u)
  <2>1. UNCHANGED <<sessions, archived, key, sha, trash>> /\ objects' = objects
    <3>1. NoKey \notin objects
      BY NoKeyAssumption DEF TypeOK
    <3> QED
      BY <1>1, <1>6, <3>1 DEF Take, Work, CheckReplaced, RemoveReplaced, Finish, Raise, FailAsset, Retry, assets
  <2>2. \A v \in Uploads : v # u => task'[v] = task[v] /\ own'[v] = own[v] /\ chosen'[v] = chosen[v]
    BY <1>6 DEF Take, Work, CheckReplaced, RemoveReplaced, Finish, Raise, FailAsset, Retry, Goto, Leave, TypeOK
  <2>3. \A v \in Uploads : (Stored(v)' <=> Stored(v)) /\ (Active(v)' <=> Active(v))
    BY <1>6 DEF Take, Work, CheckReplaced, RemoveReplaced, Finish, Raise, FailAsset, Retry, SetStatus, Stored,
       Active, assets, TypeOK
  <2>4. \/ task'[u] \notin {"working", "searching", "removing", "updating"}
        \/ task[u] = "working" /\ task'[u] = "searching" /\ own'[u] = own[u]
    <3>1. CASE Work(u)
      BY <3>1 DEF Work, Goto, Leave, TypeOK
    <3>2. CASE Take(u) \/ CheckReplaced(u) \/ RemoveReplaced(u) \/ Finish(u)
      BY <3>2 DEF Take, CheckReplaced, RemoveReplaced, Finish, Goto, Leave, TypeOK
    <3>3. CASE Raise(u) \/ FailAsset(u) \/ Retry(u)
      BY <3>3 DEF Raise, FailAsset, Retry, Goto, Leave, TypeOK
    <3> QED
      BY <1>6, <3>1, <3>2, <3>3
  <2>5. KeysAreCompleted'
    BY <2>1, <2>2, <2>3, <2>4 DEF KeysAreCompleted, Completed, sessions, trash, TypeOK
  <2>6. OwnGoesFirst'
    BY <2>1, <2>2, <2>3, <2>4 DEF OwnGoesFirst
  <2>7. ObjectsAreHeld'
    BY <2>1, <2>3 DEF ObjectsAreHeld, Holds, sessions, trash
  <2> QED
    BY <2>5, <2>6, <2>7
<1> QED
  BY <1>2, <1>3, <1>4, <1>5, <1>6 DEF Process

LEMMA TrashKeepsHeld ==
  ASSUME TypeInv, NoOverwriting, HeldFacts,
         \/ EmptyTrash
         \/ \E a \in Uploads : Archive(a) \/ Restore(a)
  PROVE  HeldFacts'
<1> USE DEF HeldFacts, TypeInv
<1>1. ASSUME NEW a \in Uploads, Archive(a) PROVE HeldFacts'
  <2>1. UNCHANGED <<objects, sessions, status, key, sha, tasks, trash>> /\ archived' = archived \union {a} /\ Stored(a)
    BY <1>1 DEF Archive, Active
  <2>2. KeysAreCompleted'
    BY <2>1 DEF KeysAreCompleted, Completed, Stored, Active, sessions, tasks, trash
  <2>3. OwnGoesFirst' /\ ObjectsAreHeld'
    BY <2>1 DEF OwnGoesFirst, ObjectsAreHeld, Holds, Stored, sessions, tasks, trash
  <2> QED
    BY <2>2, <2>3
<1>2. ASSUME NEW a \in Uploads, Restore(a) PROVE HeldFacts'
  <2>1. UNCHANGED <<objects, sessions, status, key, sha, tasks, trash>> /\ archived' = archived \ {a}
    BY <1>2 DEF Restore
  <2>2. listed = {}
    BY <1>2 DEF Restore, NoOverwriting, KeysAreCompleted
  <2>3. KeysAreCompleted'
    BY <2>1, <2>2 DEF KeysAreCompleted, Completed, Stored, sessions, tasks, trash
  <2>4. OwnGoesFirst' /\ ObjectsAreHeld'
    BY <2>1 DEF OwnGoesFirst, ObjectsAreHeld, Holds, Stored, sessions, tasks, trash
  <2> QED
    BY <2>3, <2>4
<1>3. CASE ListTrash
  <2>1. UNCHANGED <<objects, sessions, assets, tasks, item>> /\ sweep' = "checking"
    BY <1>3 DEF ListTrash
  <2>2. \A e \in listed' : e[1] \in archived /\ e[2] = key[e[1]]
    BY <1>3 DEF ListTrash
  <2>3. KeysAreCompleted'
    <3>1. \A e \in listed' : Completed(e[1]) /\ Completed(e[2]) /\ e[2] # NoKey /\ ~Active(e[1])
      BY <2>2 DEF KeysAreCompleted, KeysAreSet, Active, TypeOK
    <3> QED
      BY <2>1, <3>1 DEF KeysAreCompleted, Completed, Stored, Active, sessions, assets, tasks
  <2>4. OwnGoesFirst' /\ ObjectsAreHeld'
    BY <2>1, <2>2 DEF OwnGoesFirst, ObjectsAreHeld, Holds, Stored, sessions, assets, tasks
  <2> QED
    BY <2>3, <2>4
<1>4. CASE CountReferences
  <2>1. UNCHANGED <<objects, sessions, assets, tasks, listed>>
    BY <1>4 DEF CountReferences
  <2>2. item' \in listed /\ sweep' = (IF Used(item'[2]) THEN "deleting" ELSE "removing")
    BY <1>4 DEF CountReferences
  <2>3. KeysAreCompleted'
    BY <2>1, <2>2 DEF KeysAreCompleted, Completed, Stored, Active, sessions, assets, tasks
  <2>4. OwnGoesFirst'
    BY <2>1 DEF OwnGoesFirst, Stored, assets, tasks
  <2>5. \A a \in Uploads : Active(a) => \A e \in listed : e[1] # a
    BY DEF KeysAreCompleted
  <2>6. Used(item'[2]) => \E a \in Uploads : Holds(a, item'[2]) /\ \A e \in listed : e[1] # a
    BY <2>5 DEF Used, Holds, Active
  <2>7. ObjectsAreHeld'
    BY <2>1, <2>2, <2>6 DEF ObjectsAreHeld, Holds, Stored, sessions, assets
  <2> QED
    BY <2>3, <2>4, <2>7
<1>5. CASE RemoveListed
  <2>1. /\ UNCHANGED <<sessions, assets, tasks, listed, item>>
        /\ objects' = objects \ {item[2]} /\ sweep = "removing" /\ sweep' = "deleting"
    BY <1>5 DEF RemoveListed
  <2>2. KeysAreCompleted'
    BY <2>1 DEF KeysAreCompleted, Completed, Stored, Active, sessions, assets, tasks
  <2>3. OwnGoesFirst' /\ ObjectsAreHeld'
    BY <2>1 DEF OwnGoesFirst, ObjectsAreHeld, Holds, Stored, sessions, assets, tasks
  <2> QED
    BY <2>2, <2>3
<1>6. CASE DeleteAsset
  <2>1. item \in listed /\ item[1] \in Uploads
    BY <1>6 DEF DeleteAsset, KeysAreCompleted, TypeOK
  <2>2. PICK x \in Uploads : x = item[1]
    BY <2>1
  <2>3. /\ UNCHANGED <<objects, sessions, tasks>> /\ sweep = "deleting"
        /\ listed' = listed \ {item} /\ sweep' \in {"idle", "checking"}
        /\ sweep' = "idle" => listed' = {}
        /\ archived' = archived \ {x}
    BY <1>6, <2>2 DEF DeleteAsset, NextItem
  <2>4. status'[x] = "absent" /\ \A v \in Uploads : v # x => status'[v] = status[v] /\ key'[v] = key[v]
    BY <1>6, <2>2 DEF DeleteAsset, TypeOK
  <2>5. \A v \in Uploads : /\ Stored(v)' => Stored(v) /\ v # x
                           /\ v # x => (Stored(v)' <=> Stored(v))
                           /\ Active(v)' => Active(v)
    BY <2>3, <2>4 DEF Stored, Active
  <2>6. KeysAreCompleted'
    BY <2>3, <2>4, <2>5 DEF KeysAreCompleted, Completed, sessions, tasks, TypeOK
  <2>7. OwnGoesFirst'
    BY <2>3, <2>4, <2>5 DEF OwnGoesFirst, tasks
  <2>8. \A a \in Uploads : \A k : a # x /\ Holds(a, k) => Holds(a, k)'
    BY <2>3, <2>4, <2>5 DEF Holds
  <2>9. ASSUME NEW k \in objects PROVE session[k] = "pending" \/ \E a \in Uploads : Holds(a, k)'
    <3>1. CASE Holds(x, k)
      <4>1. item[2] = k
        BY <2>1, <2>2, <3>1 DEF Holds
      <4>2. PICK a \in Uploads : Holds(a, k) /\ \A e \in listed : e[1] # a
        BY <2>3, <4>1 DEF ObjectsAreHeld
      <4> QED
        BY <2>1, <2>2, <2>8, <4>2
    <3>2. CASE ~Holds(x, k)
      BY <2>8, <3>2 DEF ObjectsAreHeld
    <3> QED
      BY <3>1, <3>2
  <2>10. ObjectsAreHeld'
    BY <2>3, <2>9 DEF ObjectsAreHeld, sessions
  <2> QED
    BY <2>6, <2>7, <2>10
<1>7. CASE SkipAsset
  <2>1. /\ UNCHANGED <<objects, sessions, assets, tasks>>
        /\ listed' = listed \ {item} /\ sweep' \in {"idle", "checking"}
        /\ sweep' = "idle" => listed' = {}
    BY <1>7 DEF SkipAsset, NextItem
  <2>2. KeysAreCompleted'
    BY <2>1 DEF KeysAreCompleted, Completed, Stored, Active, sessions, assets, tasks
  <2>3. OwnGoesFirst' /\ ObjectsAreHeld'
    BY <2>1 DEF OwnGoesFirst, ObjectsAreHeld, Holds, Stored, sessions, assets, tasks
  <2> QED
    BY <2>2, <2>3
<1> QED
  BY <1>1, <1>2, <1>3, <1>4, <1>5, <1>6, <1>7 DEF EmptyTrash

LEMMA HeldInvariant == Spec => []HeldInv
<1>1. Init => HeldInv
  BY DEF Init, HeldInv, HeldFacts, KeysAreCompleted, OwnGoesFirst, ObjectsAreHeld, Stored, Completed
<1>2. TypeInv /\ StoresOnce /\ HeldInv /\ [Next]_vars => HeldInv'
  <2> SUFFICES ASSUME TypeInv, StoresOnce, HeldInv, [Next]_vars, NoOverwriting' PROVE HeldFacts'
    BY DEF HeldInv
  <2>1. NoOverwriting
    BY EventsFixed DEF NoOverwriting
  <2>2. CASE UNCHANGED vars
    BY <2>1, <2>2 DEF HeldInv, HeldFacts, KeysAreCompleted, OwnGoesFirst, ObjectsAreHeld, Holds, Stored, Active,
       Completed, vars, sessions, assets, tasks, trash
  <2> QED
    BY <2>1, <2>2, UploadKeepsHeld, ProcessKeepsHeld, TrashKeepsHeld DEF Next, HeldInv
<1> QED
  BY <1>1, <1>2, TypeInvariant, StoresOnceInvariant, PTL DEF Spec

(* An object that duplicates another, that has been replaced or that was   *)
(* in the trash is not forgotten in storage: whatever the users and the    *)
(* worker do meanwhile, each object has an asset once all has ended.       *)
THEOREM NothingIsForgotten == Spec => []OrphansAreRemoved
<1>1. TypeInv /\ HeldInv => OrphansAreRemoved
  BY DEF HeldInv, HeldFacts, ObjectsAreHeld, Holds, OrphansAreRemoved, NoOrphans, NoOverwriting, UnderWay, TypeInv,
     TypeOK
<1> QED
  BY <1>1, TypeInvariant, HeldInvariant, PTL

-----------------------------------------------------------------------------
(* Files.  A solo worker runs one task, or empties the trash.              *)

OneRuns ==
  \A u \in Uploads : task[u] \in Running => sweep = "idle" /\ \A v \in Uploads : task[v] \in Running => v = u

Known(a) == Active(a) /\ sha[a] # NoHash

(* The first case: no hash is declared, and nothing comes back from the    *)
(* trash.  Only a task writes a hash, so one whose asset has a hash was    *)
(* ready, and equal hashes have been shared.                               *)
Undeclared ==
  events \intersect {"pool", "hash"} = {} /\ ~({"trash", "restore"} \subseteq events)

NothingDeclared ==
  /\ declared = {}
  /\ "trash" \notin events => archived = {}
  /\ \A u \in Uploads : session[u] # "reused"

HashesAreTrue ==
  \A a \in Uploads :
    /\ sha[a] # NoHash => Stored(a) /\ sha[a] = content[key[a]]
    /\ status[a] = "ready" => sha[a] # NoHash

KnownAreShared ==
  /\ \A a \in Uploads : Known(a) => key[a] \in objects
  /\ \A a, b \in Uploads : Known(a) /\ Known(b) /\ sha[a] = sha[b] => key[a] = key[b]

(* What the task of u has to know of the assets.                           *)
TaskShares(u) ==
  /\ task[u] = "searching" => own[u] \in objects
  /\ task[u] \in {"removing", "updating"} => chosen[u] \in objects /\ content[chosen[u]] = content[own[u]]
  /\ task[u] = "removing" => chosen[u] # own[u]
  /\ task[u] = "cleaning" => previous[u] # chosen[u]
  /\ \A a \in Uploads : Known(a) =>
       /\ task[u] = "removing" /\ sha[a] = content[own[u]] => key[a] = chosen[u]
       /\ task[u] = "updating" /\ sha[a] = content[own[u]] /\ a # target[u] => key[a] = chosen[u]
       /\ task[u] \in {"checking", "cleaning"} /\ a = target[u] => key[a] = chosen[u]
       /\ task[u] = "cleaning" /\ a # target[u] => key[a] # previous[u]

TasksShare == \A u \in Uploads : TaskShares(u)

SweepSpares == sweep = "removing" => \A a \in Uploads : Known(a) => key[a] # item[2]

UndeclaredFacts ==
  OneRuns /\ NothingDeclared /\ HashesAreTrue /\ KnownAreShared /\ TasksShare /\ SweepSpares

UndeclaredInv == Undeclared => UndeclaredFacts

LEMMA UploadKeepsUndeclared ==
  ASSUME TypeInv, StoresOnce, Undeclared, UndeclaredFacts, NEW u \in Uploads, Upload(u)
  PROVE  UndeclaredFacts'
<1> USE DEF UndeclaredFacts, TypeInv
<1>1. CASE StoreAsset(u)
  <2>1. PICK t \in Uploads : t = target[u]
    BY DEF TypeOK
  <2>2. /\ UNCHANGED <<declared, target, previous, own, chosen, objects, content, trash>>
        /\ task[u] = "unsent" /\ session'[u] = "completed" /\ archived' \subseteq archived
        /\ task'[u] = "queued" /\ \A v \in Uploads : v # u => task'[v] = task[v] /\ session'[v] = session[v]
    BY <1>1 DEF StoreAsset, StoresOnce, Completed, Goto, TypeOK, assets
  <2>3. \A a \in Uploads :
          \/ status'[a] = status[a] /\ key'[a] = key[a] /\ sha'[a] = sha[a] /\ (Known(a)' => Known(a))
          \/ sha'[a] = NoHash /\ status'[a] = "processing"
    <3>1. CASE t = u \/ Stored(t)
      BY <1>1, <2>1, <3>1 DEF StoreAsset, NothingDeclared, Known, Active, Stored, TypeOK
    <3>2. CASE ~(t = u \/ Stored(t))
      BY <1>1, <2>1, <3>2 DEF StoreAsset, Known, Active, Stored, assets
    <3> QED
      BY <3>1, <3>2
  <2>4. \A a \in Uploads : Known(a)' => Known(a) /\ key'[a] = key[a] /\ sha'[a] = sha[a]
    BY <2>3 DEF Known
  <2>5. OneRuns'
    BY <2>2 DEF OneRuns, Running, trash
  <2>6. NothingDeclared'
    BY <2>2, EventsFixed, <1>1 DEF NothingDeclared, StoreAsset
  <2>7. HashesAreTrue'
    BY <2>2, <2>3 DEF HashesAreTrue, Stored
  <2>8. KnownAreShared' /\ SweepSpares'
    BY <2>2, <2>4 DEF KnownAreShared, SweepSpares, trash
  <2>9. TasksShare'
    BY <2>2, <2>4 DEF TasksShare, TaskShares, Completed, TypeOK
  <2> QED
    BY <2>5, <2>6, <2>7, <2>8, <2>9
<1>2. CASE Initialize(u) \/ Put(u) \/ ReadTarget(u)
  <2>1. /\ UNCHANGED <<declared, content, assets, tasks, trash, events>> /\ objects \subseteq objects'
        /\ ~Completed(u) /\ session'[u] \in {"pending", "reused"}
        /\ \A v \in Uploads : v # u => target'[v] = target[v] /\ previous'[v] = previous[v] /\ session'[v] = session[v]
    <3>1. CASE Initialize(u)
      BY <3>1 DEF Initialize, OpenTransfer, OpenReuse, Undeclared, Completed, TypeOK
    <3>2. CASE Put(u)
      BY <3>2 DEF Put, Completed, sessions
    <3>3. CASE ReadTarget(u)
      BY <3>3 DEF ReadTarget, Completed, TypeOK
    <3> QED
      BY <1>2, <3>1, <3>2, <3>3
  <2>2. task[u] = "unsent" /\ session'[u] # "reused"
    <3>1. task[u] = "unsent"
      BY <2>1 DEF StoresOnce
    <3>2. CASE Initialize(u)
      BY <3>1, <3>2 DEF Initialize, OpenTransfer, Undeclared, TypeOK
    <3>3. CASE Put(u) \/ ReadTarget(u)
      BY <3>1, <3>3 DEF Put, ReadTarget, NothingDeclared, sessions
    <3> QED
      BY <1>2, <3>1, <3>2, <3>3
  <2>3. \A a \in Uploads : Known(a)' <=> Known(a)
    BY <2>1 DEF Known, Active, Stored, assets
  <2>4. OneRuns' /\ HashesAreTrue' /\ KnownAreShared' /\ SweepSpares'
    BY <2>1, <2>3 DEF OneRuns, HashesAreTrue, KnownAreShared, SweepSpares, Stored, assets, tasks, trash
  <2>5. NothingDeclared'
    BY <2>1, <2>2 DEF NothingDeclared, assets
  <2>6. TasksShare'
    <3>1. TaskShares(u)'
      BY <2>1, <2>2 DEF TaskShares, tasks
    <3>2. \A v \in Uploads : v # u => TaskShares(v)'
      BY <2>1, <2>3 DEF TasksShare, TaskShares, assets, tasks
    <3> QED
      BY <3>1, <3>2 DEF TasksShare
  <2> QED
    BY <2>4, <2>5, <2>6
<1> QED
  BY <1>1, <1>2 DEF Upload

(* What a task may rely on while it runs: it is alone.                     *)
LEMMA TaskAlone ==
  ASSUME OneRuns, NEW u \in Uploads, task[u] \in Running
  PROVE  sweep = "idle" /\ \A v \in Uploads : v # u => task[v] \notin Running
BY DEF OneRuns

LEMMA ProcessFrame ==
  ASSUME TypeInv, NEW u \in Uploads, Process(u)
  PROVE  /\ UNCHANGED <<content, sessions, archived, trash>>
         /\ \A v \in Uploads : v # u => task'[v] = task[v] /\ own'[v] = own[v] /\ chosen'[v] = chosen[v]
<1>1. UNCHANGED <<content, sessions, archived, trash>>
  BY DEF Process, Take, ReadAsset, Work, Search, RemoveOwn, Update, CheckReplaced, RemoveReplaced, Finish, Raise,
     FailAsset, Retry, assets
<1>2. \A v \in Uploads : v # u => task'[v] = task[v]
  BY DEF Process, Take, ReadAsset, Work, Search, RemoveOwn, Update, CheckReplaced, RemoveReplaced, Finish, Raise,
     FailAsset, Retry, Goto, Leave, TypeInv, TypeOK
<1>3. \A v \in Uploads : v # u => own'[v] = own[v] /\ chosen'[v] = chosen[v]
  BY DEF Process, Take, ReadAsset, Work, Search, RemoveOwn, Update, CheckReplaced, RemoveReplaced, Finish, Raise,
     FailAsset, Retry, Leave, TypeInv, TypeOK
<1> QED
  BY <1>1, <1>2, <1>3

(* Each task starts alone, so that one runs at most.                       *)
LEMMA ProcessKeepsAlone ==
  ASSUME TypeInv, OneRuns, "pool" \notin events, NEW u \in Uploads, Process(u)
  PROVE  OneRuns'
<1>1. CASE Take(u)
  BY <1>1, ProcessFrame DEF Take, WorkerFree, OneRuns, Running, trash
<1>2. task[u] \in Running \/ Take(u) \/ task'[u] \notin Running
  BY DEF Process, ReadAsset, Work, Search, RemoveOwn, Update, CheckReplaced, RemoveReplaced, Finish, Raise,
     FailAsset, Retry, Goto, Running, TypeInv, TypeOK
<1>3. CASE task[u] \in Running \/ task'[u] \notin Running
  BY <1>3, ProcessFrame DEF OneRuns, trash
<1> QED
  BY <1>1, <1>2, <1>3

(* The steps of a task that neither search, remove nor write.              *)
Quiet(u) ==
  \/ Take(u) \/ ReadAsset(u) \/ Work(u) \/ CheckReplaced(u) \/ Finish(u) \/ Raise(u) \/ FailAsset(u) \/ Retry(u)

LEMMA QuietFrame ==
  ASSUME TypeInv, NEW u \in Uploads, Quiet(u)
  PROVE  /\ UNCHANGED <<key, sha, objects>>
         /\ \A a \in Uploads : /\ Stored(a)' <=> Stored(a)
                               /\ Active(a)' <=> Active(a)
                               /\ a # target[u] => status'[a] = status[a]
         /\ status'[target[u]] # "ready" \/ status'[target[u]] = status[target[u]]
         /\ FailAsset(u) \/ Retry(u) \/ UNCHANGED status
         /\ \/ task'[u] \in {"reading", "finishing", "ended", "queued", "failing", "failed"}
            \/ task[u] = "reading" /\ task'[u] = "working" /\ Stored(target[u]) /\ own'[u] = key[target[u]]
            \/ task[u] = "working" /\ task'[u] = "searching" /\ own[u] \in objects /\ own'[u] = own[u]
            \/ task[u] = "checking" /\ task'[u] = "cleaning" /\ Replaced(u) /\ own'[u] = own[u] /\ chosen'[u] = chosen[u]
<1> USE DEF TypeInv
<1>1. UNCHANGED <<key, sha, objects>>
  BY DEF Quiet, Take, ReadAsset, Work, CheckReplaced, Finish, Raise, FailAsset, Retry, assets
<1>2. /\ \A a \in Uploads : /\ Stored(a)' <=> Stored(a)
                            /\ Active(a)' <=> Active(a)
                            /\ a # target[u] => status'[a] = status[a]
      /\ status'[target[u]] # "ready" \/ status'[target[u]] = status[target[u]]
  BY DEF Quiet, Take, ReadAsset, Work, CheckReplaced, Finish, Raise, FailAsset, Retry, assets, SetStatus, Stored,
     Active, TypeOK
<1>3. FailAsset(u) \/ Retry(u) \/ UNCHANGED status
  BY DEF Quiet, Take, ReadAsset, Work, CheckReplaced, Finish, Raise, assets
<1>4. \/ task'[u] \in {"reading", "finishing", "ended", "queued", "failing", "failed"}
      \/ task[u] = "reading" /\ task'[u] = "working" /\ Stored(target[u]) /\ own'[u] = key[target[u]]
      \/ task[u] = "working" /\ task'[u] = "searching" /\ own[u] \in objects /\ own'[u] = own[u]
      \/ task[u] = "checking" /\ task'[u] = "cleaning" /\ Replaced(u) /\ own'[u] = own[u] /\ chosen'[u] = chosen[u]
  <2>1. CASE Take(u) \/ Finish(u) \/ FailAsset(u) \/ Retry(u)
    BY <2>1 DEF Take, Finish, FailAsset, Retry, Goto, TypeOK
  <2>2. CASE ReadAsset(u)
    BY <2>2 DEF ReadAsset, Goto, TypeOK
  <2>3. CASE Work(u) \/ Raise(u)
    BY <2>3 DEF Work, Raise, Goto, Leave, TypeOK
  <2>4. CASE CheckReplaced(u)
    BY <2>4 DEF CheckReplaced, Goto, Leave, TypeOK
  <2> QED
    BY <2>1, <2>2, <2>3, <2>4 DEF Quiet
<1> QED
  BY <1>1, <1>2, <1>3, <1>4

LEMMA ProcessKeepsUndeclared ==
  ASSUME TypeInv, StoresOnce, Undeclared, UndeclaredFacts, NEW u \in Uploads, Process(u)
  PROVE  UndeclaredFacts'
<1> USE DEF UndeclaredFacts, TypeInv
<1>1. /\ UNCHANGED <<content, sessions, archived, trash>>
      /\ \A v \in Uploads : v # u => task'[v] = task[v] /\ own'[v] = own[v] /\ chosen'[v] = chosen[v]
  BY ProcessFrame
<1>2. OneRuns' /\ "pool" \notin events
  BY ProcessKeepsAlone DEF Undeclared
<1>3. events' = events
  BY DEF Process, Take, ReadAsset, Work, Search, RemoveOwn, Update, CheckReplaced, RemoveReplaced, Finish, Raise,
     FailAsset, Retry
<1>4. NothingDeclared'
  BY <1>1, <1>3 DEF NothingDeclared, sessions
<1>6. PICK t \in Uploads : t = target[u]
  BY DEF TypeOK
<1>7. CASE Quiet(u)
  <2>1. UNCHANGED <<key, sha, objects>> /\ \A a \in Uploads : Known(a)' <=> Known(a)
    BY <1>7, QuietFrame DEF Known
  <2>2. HashesAreTrue'
    <3>1. \A a \in Uploads : (Stored(a)' <=> Stored(a)) /\ (status'[a] = "ready" => status[a] = "ready")
      BY <1>6, <1>7, QuietFrame
    <3> QED
      BY <1>1, <2>1, <3>1 DEF HashesAreTrue
  <2>3. KnownAreShared' /\ SweepSpares'
    BY <1>1, <2>1 DEF KnownAreShared, SweepSpares, trash
  <2>4. TasksShare'
    <3>1. Replaced(u) => previous[u] # chosen[u] /\ \A a \in Uploads \ {target[u]} : Known(a) => key[a] # previous[u]
      BY DEF Replaced, Known, Active
    <3>2. TaskShares(u)'
      BY <1>1, <1>7, <2>1, <3>1, QuietFrame DEF TasksShare, TaskShares, sessions
    <3>3. \A v \in Uploads : v # u => TaskShares(v)'
      BY <1>1, <2>1 DEF TasksShare, TaskShares, sessions
    <3> QED
      BY <3>2, <3>3 DEF TasksShare
  <2> QED
    BY <1>2, <1>4, <2>2, <2>3, <2>4
<1>8. CASE Search(u)
  <2>1. /\ UNCHANGED <<objects, assets, own>> /\ task[u] = "searching" /\ own[u] \in Uploads /\ own[u] \in objects
        /\ task'[u] = IF chosen'[u] = own[u] THEN "updating" ELSE "removing"
    BY <1>8 DEF Search, Goto, TypeOK, TasksShare, TaskShares
  <2>2. content[own[u]] # NoHash
    BY <2>1, NoHashAssumption DEF TypeOK
  <2>3. \A a \in Uploads : Known(a) /\ sha[a] = content[own[u]] /\ a # t => a \in Duplicates(u)
    BY <1>6 DEF Duplicates, SameContent, Known
  <2>4. \A d \in Duplicates(u) : d \in Uploads /\ Known(d) /\ sha[d] = content[own[u]] /\ sha[d] # NoHash
    BY <2>2 DEF Duplicates, SameContent, Known
  <2>5. CASE Duplicates(u) = {}
    <3>1. chosen'[u] = own[u]
      BY <1>8, <2>5 DEF Search, TypeOK
    <3> HIDE DEF Duplicates
    <3> QED
      BY <1>1, <1>2, <1>4, <1>6, <2>1, <2>3, <2>5, <3>1
      DEF TasksShare, TaskShares, HashesAreTrue, KnownAreShared, SweepSpares, Known, Active, Stored, assets, sessions, trash
  <2>6. CASE Duplicates(u) # {}
    <3>1. PICK d \in Duplicates(u) : chosen'[u] = key[d]
      BY <1>8, <2>6 DEF Search, TypeOK
    <3>2. chosen'[u] \in objects /\ content[chosen'[u]] = content[own[u]]
      BY <2>4, <3>1 DEF KnownAreShared, HashesAreTrue
    <3>3. \A a \in Uploads : Known(a) /\ sha[a] = content[own[u]] => key[a] = chosen'[u]
      BY <2>4, <3>1 DEF KnownAreShared
    <3>4. \A a \in Uploads : Known(a)' <=> Known(a)
      BY <1>1, <2>1 DEF Known, Active, Stored, assets
    <3>5. TasksShare'
      <4>1. TaskShares(u)'
        BY <1>1, <1>6, <2>1, <3>2, <3>3, <3>4 DEF TaskShares, assets, sessions
      <4>2. \A v \in Uploads : v # u => TaskShares(v)'
        BY <1>1, <2>1, <3>4 DEF TasksShare, TaskShares, assets, sessions
      <4> QED
        BY <4>1, <4>2 DEF TasksShare
    <3>6. HashesAreTrue' /\ KnownAreShared' /\ SweepSpares'
      BY <1>1, <2>1, <3>4 DEF HashesAreTrue, KnownAreShared, SweepSpares, Stored, assets, trash
    <3> QED
      BY <1>2, <1>4, <3>5, <3>6
  <2> QED
    BY <2>5, <2>6
<1>9. CASE RemoveOwn(u) \/ RemoveReplaced(u)
  <2>1. /\ UNCHANGED assets /\ task[u] \in Running
        /\ \/ /\ task[u] = "removing" /\ task'[u] = "updating" /\ own'[u] = own[u] /\ chosen'[u] = chosen[u]
              /\ objects' = objects \ {own[u]}
           \/ task[u] = "cleaning" /\ task'[u] = "finishing" /\ objects' = objects \ {previous[u]}
    BY <1>9 DEF RemoveOwn, RemoveReplaced, Goto, Leave, Running, TypeOK
  <2>2. \A v \in Uploads : v # u => task'[v] \notin Running
    BY <1>1, <2>1, TaskAlone
  <2>3. \A a \in Uploads : (Known(a)' <=> Known(a)) /\ (Known(a) => key[a] \in objects')
    <3>1. ASSUME NEW a \in Uploads, Known(a), task[u] = "removing" PROVE key[a] # own[u]
      BY <1>6, <3>1 DEF TasksShare, TaskShares, HashesAreTrue, Known
    <3>2. ASSUME NEW a \in Uploads, Known(a), task[u] = "cleaning" PROVE key[a] # previous[u]
      BY <1>6, <3>2 DEF TasksShare, TaskShares
    <3> QED
      BY <1>1, <2>1, <3>1, <3>2 DEF KnownAreShared, Known, Active, Stored, assets
  <2>4. HashesAreTrue' /\ KnownAreShared' /\ SweepSpares'
    BY <1>1, <2>1, <2>3 DEF HashesAreTrue, KnownAreShared, SweepSpares, Stored, assets, trash
  <2>5. TasksShare'
    BY <1>1, <2>1, <2>2, <2>3 DEF TasksShare, TaskShares, Running, assets, sessions
  <2> QED
    BY <1>2, <1>4, <2>4, <2>5
<1>10. CASE Update(u)
  <2>1. UNCHANGED <<objects, own, chosen>> /\ task[u] = "updating" /\ task'[u] = "checking" /\ task[u] \in Running
    BY <1>10 DEF Update, Goto, Running, TypeOK
  <2>2. sweep = "idle" /\ \A v \in Uploads : v # u => task'[v] \notin Running
    BY <1>1, <2>1, TaskAlone
  <2>3. /\ \A a \in Uploads : a # t => /\ status'[a] = status[a] /\ key'[a] = key[a] /\ sha'[a] = sha[a]
                                       /\ Known(a)' <=> Known(a)
        /\ \/ Stored(t) /\ Stored(t)' /\ key'[t] = chosen[u] /\ sha'[t] = content[own[u]]
           \/ ~Stored(t) /\ ~Stored(t)' /\ ~Known(t)' /\ status'[t] = status[t] /\ key'[t] = key[t] /\ sha'[t] = sha[t]
    BY <1>6, <1>10 DEF Update, SetStatus, Known, Active, Stored, TypeOK
  <2>4. /\ own[u] \in Uploads /\ chosen[u] \in objects /\ content[chosen[u]] = content[own[u]]
        /\ \A a \in Uploads \ {t} : Known(a) /\ sha[a] = content[own[u]] => key[a] = chosen[u]
    BY <1>6, <2>1 DEF TasksShare, TaskShares, TypeOK, KeysAreSet, Keys
  <2>5. content[own[u]] # NoHash
    BY <2>4, NoHashAssumption DEF TypeOK
  <2>6. HashesAreTrue'
    BY <1>1, <2>3, <2>4, <2>5 DEF HashesAreTrue, Stored
  <2>7. KnownAreShared' /\ SweepSpares'
    BY <1>1, <2>1, <2>2, <2>3, <2>4 DEF KnownAreShared, SweepSpares, trash, Known, Active
  <2>8. TasksShare'
    <3>1. Known(t)' => key'[t] = chosen[u]
      BY <2>3
    <3> QED
      BY <1>1, <1>6, <2>1, <2>2, <3>1 DEF TasksShare, TaskShares, Running, sessions
  <2> QED
    BY <1>2, <1>4, <2>6, <2>7, <2>8
<1> QED
  BY <1>7, <1>8, <1>9, <1>10 DEF Process, Quiet

LEMMA TrashKeepsUndeclared ==
  ASSUME TypeInv, Undeclared, UndeclaredFacts,
         \/ EmptyTrash
         \/ \E a \in Uploads : Archive(a) \/ Restore(a)
  PROVE  UndeclaredFacts'
<1> USE DEF UndeclaredFacts, TypeInv
<1>1. UNCHANGED <<events, content, sessions, tasks>>
  BY DEF EmptyTrash, Archive, Restore, ListTrash, CountReferences, RemoveListed, DeleteAsset, SkipAsset
<1>2. \A a \in Uploads : Known(a)' => Known(a) /\ key'[a] = key[a] /\ sha'[a] = sha[a]
  <2>1. ASSUME NEW a \in Uploads, Restore(a) PROVE FALSE
    BY <2>1 DEF Restore, Undeclared, NothingDeclared
  <2>2. CASE \E a \in Uploads : Archive(a)
    BY <2>2 DEF Archive, Known, Active, Stored
  <2>3. CASE ListTrash \/ CountReferences \/ RemoveListed \/ SkipAsset
    BY <2>3 DEF ListTrash, CountReferences, RemoveListed, SkipAsset, Known, Active, Stored, assets
  <2>4. CASE DeleteAsset
    <3>1. PICK i : i = item[1]
      OBVIOUS
    <3> QED
      BY <2>4, <3>1 DEF DeleteAsset, Known, Active, Stored, TypeOK
  <2> QED
    BY <2>1, <2>2, <2>3, <2>4 DEF EmptyTrash
<1>3. HashesAreTrue'
  <2>1. CASE DeleteAsset
    <3>1. PICK i : i = item[1]
      OBVIOUS
    <3>2. \A a \in Uploads :
            \/ a # i /\ status'[a] = status[a] /\ key'[a] = key[a] /\ sha'[a] = sha[a]
            \/ status'[a] = "absent" /\ sha'[a] = NoHash
      BY <2>1, <3>1 DEF DeleteAsset, TypeOK
    <3> QED
      BY <1>1, <3>2 DEF HashesAreTrue, Stored
  <2>2. CASE ~DeleteAsset
    <3>1. UNCHANGED <<status, key, sha>>
      BY <2>2 DEF EmptyTrash, Archive, Restore, ListTrash, CountReferences, RemoveListed, SkipAsset, assets
    <3> QED
      BY <1>1, <3>1 DEF HashesAreTrue, Stored
  <2> QED
    BY <2>1, <2>2
<1>4. NothingDeclared'
  <2>1. ASSUME "trash" \notin events PROVE archived' = {}
    <3>1. archived = {}
      BY <2>1 DEF NothingDeclared
    <3> QED
      BY <2>1, <3>1 DEF EmptyTrash, Archive, Restore, ListTrash, CountReferences, RemoveListed, DeleteAsset, SkipAsset,
         assets
  <2> QED
    BY <1>1, <2>1 DEF NothingDeclared, sessions
<1>5. CASE (\E a \in Uploads : Archive(a) \/ Restore(a)) \/ DeleteAsset \/ SkipAsset
  <2>1. /\ objects' = objects /\ (sweep' = sweep \/ sweep' \in {"idle", "checking"})
        /\ sweep' = sweep => item' = item
        /\ sweep = "idle" => sweep' = "idle"
    BY <1>5 DEF Archive, Restore, DeleteAsset, SkipAsset, NextItem, trash
  <2>2. OneRuns' /\ KnownAreShared' /\ SweepSpares'
    BY <1>1, <1>2, <2>1 DEF OneRuns, KnownAreShared, SweepSpares, tasks
  <2>3. TasksShare'
    BY <1>1, <1>2, <2>1 DEF TasksShare, TaskShares, Completed, sessions, tasks
  <2> QED
    BY <1>3, <1>4, <2>2, <2>3
<1>6. CASE ListTrash \/ CountReferences \/ RemoveListed
  <2>1. /\ \A v \in Uploads : task[v] \notin Running
        /\ UNCHANGED assets
    BY <1>6 DEF ListTrash, CountReferences, RemoveListed, OneRuns, WorkerFree, Undeclared
  <2>2. OneRuns'
    BY <1>1, <2>1 DEF OneRuns, tasks
  <2>3. KnownAreShared'
    <3>1. \A a \in Uploads : Known(a) => key[a] \in objects'
      BY <1>6 DEF ListTrash, CountReferences, RemoveListed, KnownAreShared, SweepSpares
    <3> QED
      BY <1>2, <3>1 DEF KnownAreShared
  <2>4. SweepSpares'
    <3>1. ASSUME NEW a \in Uploads, Known(a), sweep' = "removing" PROVE key[a] # item'[2]
      BY <1>6, <3>1 DEF ListTrash, CountReferences, RemoveListed, Used, Known
    <3> QED
      BY <1>2, <3>1 DEF SweepSpares
  <2>5. TasksShare'
    BY <1>1, <2>1 DEF TasksShare, TaskShares, Running, Completed, sessions, tasks
  <2> QED
    BY <1>3, <1>4, <2>2, <2>3, <2>4, <2>5
<1> QED
  BY <1>5, <1>6 DEF EmptyTrash

LEMMA UndeclaredInvariant == Spec => []UndeclaredInv
<1>1. Init => UndeclaredInv
  BY NoHashAssumption DEF Init, UndeclaredInv, UndeclaredFacts, OneRuns, NothingDeclared, HashesAreTrue, KnownAreShared,
     TasksShare, TaskShares, SweepSpares, Known, Running
<1>2. TypeInv /\ StoresOnce /\ UndeclaredInv /\ [Next]_vars => UndeclaredInv'
  <2> SUFFICES ASSUME TypeInv, StoresOnce, UndeclaredInv, [Next]_vars, Undeclared' PROVE UndeclaredFacts'
    BY DEF UndeclaredInv
  <2>1. Undeclared
    BY EventsFixed DEF Undeclared
  <2>2. CASE UNCHANGED vars
    BY <2>1, <2>2 DEF UndeclaredInv, UndeclaredFacts, OneRuns, NothingDeclared, HashesAreTrue, KnownAreShared,
       TasksShare, TaskShares, SweepSpares, Known, Stored, Active, Completed, vars, sessions, assets, tasks, trash
  <2> QED
    BY <2>1, <2>2, UploadKeepsUndeclared, ProcessKeepsUndeclared, TrashKeepsUndeclared DEF Next, UndeclaredInv
<1> QED
  BY <1>1, <1>2, TypeInvariant, StoresOnceInvariant, PTL DEF Spec

-----------------------------------------------------------------------------
(* The second case: assets come back from the trash, and nothing else      *)
(* disturbs it.  A task only takes over the object of an asset whose own   *)
(* task is over.                                                           *)
Restoring == events \subseteq {"restore", "trash", "twins"}

Over(u) == task[u] \in {"checking", "cleaning", "finishing", "ended"}

(* The object an asset has to begin with is that of its own upload.        *)
BeginsOwn(u) ==
  /\ target[u] = u /\ previous[u] = NoKey /\ session[u] # "reused"
  /\ session[u] # "none" => file[u] = u
  /\ status[u] = "ready" => sha[u] # NoHash
  /\ Stored(u) => Completed(u)
  /\ sha[u] # NoHash => Stored(u) /\ Over(u) /\ Over(key[u])
  /\ Stored(u) /\ ~Over(u) => key[u] = u
  /\ task[u] \in {"working", "searching", "removing", "updating"} => own[u] = u
  /\ task[u] = "searching" => u \in objects
  /\ task[u] \in {"removing", "updating"} => chosen[u] \in objects /\ (chosen[u] = u \/ Over(chosen[u]))
  /\ task[u] = "removing" => chosen[u] # u

(* While the trash is emptied its assets may have lost their objects: it   *)
(* has them all on its list, and none of them comes back.                  *)
SweepIsComplete ==
  /\ \A a \in Uploads : (sha[a] # NoHash /\ (sweep = "idle" \/ Active(a))) => key[a] \in objects
  /\ sweep # "idle" => \A a \in archived : \E e \in listed : e[1] = a
  /\ sweep \in {"removing", "deleting"} => item \in listed
  /\ SweepSpares

RestoringFacts ==
  /\ OneRuns
  /\ declared = {}
  /\ \A u \in Uploads : BeginsOwn(u)
  /\ SweepIsComplete

RestoringInv == Restoring => RestoringFacts

LEMMA UploadKeepsRestoring ==
  ASSUME TypeInv, StoresOnce, Restoring, RestoringFacts, NEW u \in Uploads, Upload(u)
  PROVE  RestoringFacts'
<1> USE DEF RestoringFacts, TypeInv
<1>1. target[u] = u /\ BeginsOwn(u)
  BY DEF BeginsOwn
<1>2. CASE StoreAsset(u)
  <2>1. /\ UNCHANGED <<declared, target, file, previous, own, chosen, objects, content, trash>>
        /\ session[u] = "pending" /\ ~Stored(u) /\ task[u] = "unsent" /\ file[u] = u
    BY <1>1, <1>2 DEF StoreAsset, StoresOnce, Completed, BeginsOwn, TypeOK
  <2>2. /\ session'[u] = "completed" /\ task'[u] = "queued" /\ status'[u] = "processing"
        /\ key'[u] = u /\ sha'[u] = NoHash /\ archived' = archived \ {u}
    BY <1>1, <1>2, <2>1 DEF StoreAsset, Goto, TypeOK
  <2>3. \A v \in Uploads : v # u => /\ session'[v] = session[v] /\ task'[v] = task[v] /\ status'[v] = status[v]
                                    /\ key'[v] = key[v] /\ sha'[v] = sha[v]
    BY <1>1, <1>2 DEF StoreAsset, Goto, TypeOK
  <2>4. OneRuns'
    BY <2>1, <2>2, <2>3 DEF OneRuns, Running, trash
  <2>5. \A k : Over(k) /\ k \in Uploads => Over(k)'
    BY <2>1, <2>3 DEF Over
  <2>6. BeginsOwn(u)'
    BY <1>1, <2>1, <2>2 DEF BeginsOwn, Over, Completed
  <2>7. ASSUME NEW v \in Uploads, v # u PROVE BeginsOwn(v)'
    <3>1. BeginsOwn(v) /\ (Over(v)' <=> Over(v))
      BY <2>3, <2>7 DEF Over
    <3>2. /\ sha[v] # NoHash => Over(key[v]) /\ key[v] \in Uploads /\ Over(key[v])'
          /\ task[v] \in {"removing", "updating"} => chosen[v] \in Uploads /\ (Over(chosen[v]) => Over(chosen[v])')
      <4>1. ASSUME NEW k, k = key[v], sha[v] # NoHash PROVE k \in Uploads /\ Over(k)'
        BY <2>5, <3>1, <4>1 DEF BeginsOwn, KeysAreSet, TypeOK, Keys
      <4>2. ASSUME NEW k, k = chosen[v], task[v] \in {"removing", "updating"}, Over(k) PROVE Over(k)'
        BY <2>5, <4>2 DEF KeysAreSet, TypeOK, Keys
      <4>3. key'[v] = key[v] /\ chosen'[v] = chosen[v]
        BY <2>1, <2>3, <2>7
      <4> QED
        BY <3>1, <4>1, <4>2, <4>3 DEF BeginsOwn, KeysAreSet, TypeOK, Keys
    <3> QED
      BY <2>1, <2>3, <2>7, <3>1, <3>2 DEF BeginsOwn, Stored, Completed
  <2>8. SweepIsComplete'
    BY <2>1, <2>2, <2>3 DEF SweepIsComplete, SweepSpares, Known, Active, Stored, trash
  <2> QED
    BY <2>1, <2>4, <2>6, <2>7, <2>8
<1>3. CASE Initialize(u) \/ Put(u) \/ ReadTarget(u)
  <2>1. /\ UNCHANGED <<declared, assets, tasks, trash, target, previous>> /\ objects \subseteq objects'
        /\ session'[u] \in {"none", "pending"} /\ (session'[u] # "none" => file'[u] = u)
        /\ ~Completed(u)
        /\ \A v \in Uploads : v # u => session'[v] = session[v] /\ file'[v] = file[v]
    <3>1. CASE Initialize(u)
      <4>1. OpenTransfer(u) /\ UNCHANGED <<declared, assets, tasks, trash, previous, objects>> /\ session[u] = "none"
        BY <3>1 DEF Initialize, Restoring
      <4>2. target' = [target EXCEPT ![u] = u]
        BY <3>1 DEF Initialize, Restoring
      <4> QED
        BY <1>1, <4>1, <4>2 DEF OpenTransfer, Completed, TypeOK
    <3>2. CASE Put(u)
      BY <1>1, <3>2 DEF Put, Completed, sessions, BeginsOwn
    <3>3. CASE ReadTarget(u)
      BY <1>1, <3>3 DEF ReadTarget, Completed, BeginsOwn, TypeOK
    <3> QED
      BY <1>3, <3>1, <3>2, <3>3
  <2>2. \A v \in Uploads : Completed(v)' <=> Completed(v)
    BY <2>1 DEF Completed
  <2>3. \A v \in Uploads : BeginsOwn(v)'
    BY <2>1, <2>2 DEF BeginsOwn, Stored, Over, assets, tasks
  <2>4. OneRuns' /\ SweepIsComplete'
    BY <2>1 DEF OneRuns, SweepIsComplete, SweepSpares, Known, Active, Stored, assets, tasks, trash
  <2> QED
    BY <2>1, <2>3, <2>4
<1> QED
  BY <1>2, <1>3 DEF Upload

LEMMA ProcessKeepsRestoring ==
  ASSUME TypeInv, StoresOnce, Restoring, RestoringFacts, NEW u \in Uploads, Process(u)
  PROVE  RestoringFacts'
<1> USE DEF RestoringFacts, TypeInv
<1>1. /\ UNCHANGED <<content, sessions, archived, trash>>
      /\ \A v \in Uploads : v # u => task'[v] = task[v] /\ own'[v] = own[v] /\ chosen'[v] = chosen[v]
  BY ProcessFrame
<1>2. OneRuns'
  BY ProcessKeepsAlone DEF Restoring
<1>3. declared' = {} /\ target[u] = u /\ previous[u] = NoKey /\ BeginsOwn(u)
  BY <1>1 DEF sessions, BeginsOwn
<1>4. Over(u) => Over(u)'
  <2>1. ~Raise(u)
    BY DEF Raise, Restoring
  <2> QED
    BY <2>1 DEF Process, Take, ReadAsset, Work, Search, RemoveOwn, Update, CheckReplaced, RemoveReplaced, Finish,
       FailAsset, Retry, Goto, Leave, Over, TypeOK
<1>5. \A k \in Uploads : Over(k) => Over(k)'
  BY <1>1, <1>4 DEF Over
<1>6. \A v \in Uploads : sha[v] # NoHash => Over(key[v]) /\ key[v] \in Uploads
  BY DEF BeginsOwn, KeysAreSet, TypeOK, Keys
<1>7. \A v \in Uploads : v # u /\ BeginsOwn(v) /\ (task[v] \notin Running \/ objects \subseteq objects')
        /\ status'[v] = status[v] /\ key'[v] = key[v] /\ sha'[v] = sha[v] => BeginsOwn(v)'
  <2> TAKE v \in Uploads
  <2> HAVE v # u /\ BeginsOwn(v) /\ (task[v] \notin Running \/ objects \subseteq objects')
           /\ status'[v] = status[v] /\ key'[v] = key[v] /\ sha'[v] = sha[v]
  <2>1. task'[v] = task[v] /\ own'[v] = own[v] /\ chosen'[v] = chosen[v]
    BY <1>1
  <2>2. PICK k : k = key[v]
    OBVIOUS
  <2>3. PICK c : c = chosen[v]
    OBVIOUS
  <2>4. sha[v] # NoHash => Over(k)'
    BY <1>5, <1>6, <2>2
  <2>5. task[v] \in {"removing", "updating"} /\ Over(c) => Over(c)'
    BY <1>5, <2>3 DEF KeysAreSet, TypeOK, Keys
  <2>6. sha[v] # NoHash => Over(key[v])'
    BY <2>2, <2>4 DEF Over
  <2>7. task[v] \in {"removing", "updating"} => chosen'[v] = v \/ Over(chosen[v])'
    BY <2>1, <2>3, <2>5 DEF Over, BeginsOwn
  <2> QED
    BY <1>1, <2>1, <2>6, <2>7 DEF BeginsOwn, Stored, Over, Completed, Running, sessions
<1>8. CASE Quiet(u)
  <2>1. UNCHANGED <<key, sha, objects>> /\ \A v \in Uploads : v # u => status'[v] = status[v]
    BY <1>3, <1>8, QuietFrame
  <2>2. \A a \in Uploads : (Stored(a)' <=> Stored(a)) /\ (Active(a)' <=> Active(a))
    BY <1>8, QuietFrame
  <2>3. SweepIsComplete'
    BY <1>1, <2>1, <2>2 DEF SweepIsComplete, SweepSpares, Known, trash
  <2>4. BeginsOwn(u)'
    <3>1. status'[u] = "ready" => status[u] = "ready"
      BY <1>3, <1>8, QuietFrame
    <3>2. \/ task'[u] \in {"reading", "finishing", "ended", "queued", "failing", "failed", "cleaning"}
          \/ task'[u] = "working" /\ own'[u] = u
          \/ task'[u] = "searching" /\ own'[u] = u /\ u \in objects
      BY <1>3, <1>8, QuietFrame DEF BeginsOwn, Over
    <3>3. (sha[u] # NoHash => Over(key[u])') /\ (~Over(u)' => ~Over(u))
      <4>1. PICK k : k = key[u]
        OBVIOUS
      <4>2. sha[u] # NoHash => Over(k)'
        BY <1>5, <1>6, <4>1
      <4> QED
        BY <1>4, <2>1, <4>1, <4>2 DEF Over
    <3>4. sha[u] # NoHash => Over(u)'
      BY <1>3, <1>4 DEF BeginsOwn
    <3> QED
      BY <1>1, <1>3, <2>1, <2>2, <3>1, <3>2, <3>3, <3>4 DEF BeginsOwn, Completed, sessions
  <2> QED
    BY <1>2, <1>3, <1>7, <2>1, <2>3, <2>4
<1>9. CASE Search(u)
  <2>1. /\ UNCHANGED <<objects, assets, own>> /\ task[u] = "searching" /\ own[u] = u /\ u \in objects /\ ~Over(u)
        /\ task'[u] = IF chosen'[u] = u THEN "updating" ELSE "removing"
    BY <1>3, <1>9 DEF Search, Goto, TypeOK, BeginsOwn, Over
  <2>2. content[u] # NoHash
    BY NoHashAssumption DEF TypeOK
  <2>3. chosen'[u] \in objects /\ (chosen'[u] = u \/ Over(chosen'[u]))
    <3>1. \A d \in Duplicates(u) : d \in Uploads /\ Active(d) /\ sha[d] # NoHash
      BY <2>1, <2>2 DEF Duplicates, SameContent
    <3>2. chosen'[u] = u \/ \E d \in Duplicates(u) : chosen'[u] = key[d]
      BY <1>9, <2>1 DEF Search, TypeOK
    <3> QED
      BY <1>6, <2>1, <3>1, <3>2 DEF SweepIsComplete
  <2>4. PICK c \in Uploads : c = chosen'[u]
    BY <2>3 DEF TypeOK
  <2>5. BeginsOwn(u)'
    <3>1. sha[u] = NoHash
      BY <1>3, <2>1 DEF BeginsOwn
    <3>2. c = u \/ Over(c)'
      BY <1>5, <2>3, <2>4
    <3>3. chosen'[u] = u \/ Over(chosen[u])'
      BY <2>4, <3>2 DEF Over
    <3> QED
      BY <1>1, <1>3, <2>1, <2>3, <3>1, <3>3 DEF BeginsOwn, Stored, Over, Completed, assets, sessions
  <2>6. SweepIsComplete'
    BY <1>1, <2>1 DEF SweepIsComplete, SweepSpares, Known, Active, Stored, assets, trash
  <2> QED
    BY <1>2, <1>3, <1>7, <2>1, <2>5, <2>6 DEF assets
<1>10. CASE RemoveOwn(u) \/ RemoveReplaced(u)
  <2>1. /\ UNCHANGED assets /\ task[u] \in Running
        /\ \/ /\ task[u] = "removing" /\ task'[u] = "updating" /\ own'[u] = u /\ chosen'[u] = chosen[u]
              /\ objects' = objects \ {u} /\ chosen[u] # u
           \/ task[u] = "cleaning" /\ task'[u] = "finishing" /\ objects' = objects \ {NoKey}
    BY <1>3, <1>10 DEF RemoveOwn, RemoveReplaced, Goto, Leave, Running, TypeOK, BeginsOwn
  <2>2. sweep = "idle" /\ \A v \in Uploads : v # u => task[v] \notin Running
    BY <1>1, <2>1, TaskAlone
  <2>3. \A a \in Uploads : sha[a] # NoHash => key[a] \in objects'
    <3>1. task[u] = "removing" => ~Over(u)
      BY DEF Over
    <3> QED
      BY <1>6, <2>1, <2>2, <3>1, NoKeyAssumption DEF SweepIsComplete, TypeOK
  <2>4. SweepIsComplete'
    BY <1>1, <2>1, <2>2, <2>3 DEF SweepIsComplete, SweepSpares, assets, trash
  <2>5. BeginsOwn(u)'
    <3>1. PICK k : k = key[u]
      OBVIOUS
    <3>2. PICK c : c = chosen[u]
      OBVIOUS
    <3>3. sha[u] # NoHash => Over(key[u])'
      <4>1. sha[u] # NoHash => Over(k)'
        BY <1>5, <1>6, <3>1
      <4> QED
        BY <2>1, <3>1, <4>1 DEF Over, assets
    <3>4. task'[u] = "updating" => chosen'[u] \in objects' /\ (chosen'[u] = u \/ Over(chosen[u])')
      <4>1. task'[u] = "updating" => c \in objects /\ c # u /\ Over(c)
        BY <1>3, <2>1, <3>2 DEF BeginsOwn
      <4>2. task'[u] = "updating" => Over(c)'
        BY <1>5, <4>1 DEF TypeOK
      <4> QED
        BY <2>1, <3>2, <4>1, <4>2 DEF Over
    <3>5. (sha[u] # NoHash => Over(u)') /\ (~Over(u)' => ~Over(u))
      BY <1>3, <1>4 DEF BeginsOwn
    <3> QED
      BY <1>1, <1>3, <2>1, <3>3, <3>4, <3>5 DEF BeginsOwn, Completed, Stored, sessions, assets
  <2> QED
    BY <1>2, <1>3, <1>7, <2>1, <2>2, <2>4, <2>5 DEF assets
<1>11. CASE Update(u)
  <2>1. /\ UNCHANGED <<objects, own, chosen>> /\ task[u] = "updating" /\ task'[u] = "checking" /\ own[u] = u
        /\ chosen[u] \in objects /\ (chosen[u] = u \/ Over(chosen[u]))
    BY <1>3, <1>11 DEF Update, Goto, TypeOK, BeginsOwn
  <2>2. sweep = "idle"
    BY <2>1, TaskAlone DEF Running
  <2>3. /\ \A v \in Uploads : v # u => status'[v] = status[v] /\ key'[v] = key[v] /\ sha'[v] = sha[v]
        /\ \/ Stored(u)' /\ Stored(u) /\ key'[u] = chosen[u] /\ sha'[u] = content[u]
           \/ ~Stored(u) /\ status'[u] = "absent" /\ key'[u] = key[u] /\ sha'[u] = sha[u]
    BY <1>3, <1>11, <2>1 DEF Update, SetStatus, Stored, TypeOK
  <2>4. PICK c \in Uploads : c = chosen[u]
    BY <2>1 DEF TypeOK
  <2>5. Over(c)' /\ Over(u)'
    BY <1>5, <2>1, <2>4 DEF Over
  <2>6. content[u] # NoHash
    BY NoHashAssumption DEF TypeOK
  <2>7. BeginsOwn(u)'
    <3>1. ~Stored(u) => sha[u] = NoHash
      BY <1>3 DEF BeginsOwn
    <3>2. Stored(u)' => Over(key[u])'
      BY <2>3, <2>4, <2>5 DEF Over, Stored
    <3> QED
      BY <1>1, <1>3, <2>1, <2>3, <2>5, <2>6, <3>1, <3>2 DEF BeginsOwn, Completed, Stored, sessions
  <2>8. SweepIsComplete'
    <3>1. ~Stored(u) => sha[u] = NoHash
      BY <1>3 DEF BeginsOwn
    <3> QED
      BY <1>1, <2>1, <2>2, <2>3, <3>1 DEF SweepIsComplete, SweepSpares, trash
  <2> QED
    BY <1>2, <1>3, <1>7, <2>1, <2>3, <2>7, <2>8
<1> QED
  BY <1>8, <1>9, <1>10, <1>11 DEF Process, Quiet

LEMMA TrashKeepsRestoring ==
  ASSUME TypeInv, Restoring, RestoringFacts,
         \/ EmptyTrash
         \/ \E a \in Uploads : Archive(a) \/ Restore(a)
  PROVE  RestoringFacts'
<1> USE DEF RestoringFacts, TypeInv
<1>1. UNCHANGED <<content, sessions, tasks>>
  BY DEF EmptyTrash, Archive, Restore, ListTrash, CountReferences, RemoveListed, DeleteAsset, SkipAsset
<1>2. declared' = {} /\ \A k : Over(k)' <=> Over(k)
  BY <1>1 DEF sessions, tasks, Over
<1>3. (\A v \in Uploads : task[v] \notin Running) \/ (sweep' = sweep /\ objects' = objects)
  BY DEF EmptyTrash, Archive, Restore, ListTrash, CountReferences, RemoveListed, DeleteAsset, SkipAsset,
     OneRuns, WorkerFree, Restoring, trash
<1>4. OneRuns'
  BY <1>1, <1>3 DEF OneRuns, tasks
<1>5. CASE ~DeleteAsset
  <2>1. UNCHANGED <<status, key, sha>>
    BY <1>5 DEF EmptyTrash, Archive, Restore, ListTrash, CountReferences, RemoveListed, SkipAsset, assets
  <2>2. \A v \in Uploads : BeginsOwn(v)'
    BY <1>1, <1>3, <2>1 DEF BeginsOwn, Over, Stored, Completed, Running, sessions, tasks
  <2>3. CASE \E a \in Uploads : Archive(a) \/ Restore(a)
    <3>1. sweep = "idle" /\ UNCHANGED <<objects, trash>>
      BY <2>3 DEF Archive, Restore, Restoring
    <3> QED
      BY <1>2, <1>4, <2>1, <2>2, <3>1 DEF SweepIsComplete, SweepSpares, trash
  <2>4. CASE ListTrash
    <3>1. sweep = "idle" /\ sweep' = "checking" /\ UNCHANGED <<objects, archived>>
      BY <2>4 DEF ListTrash, assets
    <3>2. ASSUME NEW a \in archived PROVE \E e \in listed' : e[1] = a
      <4>1. <<a, key[a]>> \in listed' /\ <<a, key[a]>>[1] = a
        BY <2>4 DEF ListTrash
      <4> QED
        BY <4>1
    <3>3. \A a \in Uploads : sha'[a] # NoHash => key'[a] \in objects'
      BY <2>1, <3>1 DEF SweepIsComplete
    <3>4. SweepIsComplete'
      BY <3>1, <3>2, <3>3 DEF SweepIsComplete, SweepSpares
    <3> QED
      BY <1>2, <1>4, <2>2, <3>4
  <2>5. CASE CountReferences
    <3>1. sweep # "idle" /\ sweep' # "idle" /\ UNCHANGED <<objects, assets, listed>> /\ item' \in listed
      BY <2>5 DEF CountReferences
    <3>2. ASSUME NEW a \in Uploads, Known(a), sweep' = "removing" PROVE key[a] # item'[2]
      BY <2>5, <3>2 DEF CountReferences, Used, Known
    <3>3. SweepSpares'
      BY <3>1, <3>2 DEF SweepSpares, Known, Active, Stored, assets
    <3> QED
      BY <1>2, <1>4, <2>2, <3>1, <3>3 DEF SweepIsComplete, Active, Stored, assets
  <2>6. CASE RemoveListed
    <3>1. sweep = "removing" /\ sweep' = "deleting" /\ UNCHANGED <<assets, listed, item>> /\ objects' = objects \ {item[2]}
      BY <2>6 DEF RemoveListed
    <3> QED
      BY <1>2, <1>4, <2>2, <3>1 DEF SweepIsComplete, SweepSpares, Known, Active, Stored, assets
  <2>7. ~SkipAsset
    BY DEF SkipAsset, Restoring
  <2> QED
    BY <1>5, <2>3, <2>4, <2>5, <2>6, <2>7 DEF EmptyTrash
<1>6. CASE DeleteAsset
  <2>1. PICK x \in Uploads : x = item[1]
    BY <1>6 DEF DeleteAsset, SweepIsComplete, TypeOK
  <2>2. /\ objects' = objects /\ archived' = archived \ {x} /\ sweep # "idle" /\ listed' = listed \ {item}
        /\ status'[x] = "absent" /\ sha'[x] = NoHash
        /\ \A v \in Uploads : v # x => status'[v] = status[v] /\ sha'[v] = sha[v] /\ key'[v] = key[v]
        /\ sweep' = IF listed' = {} THEN "idle" ELSE "checking"
    BY <1>6, <2>1 DEF DeleteAsset, NextItem, TypeOK
  <2>3. \A v \in Uploads : BeginsOwn(v)'
    <3>1. BeginsOwn(x)'
      BY <1>1, <2>2 DEF BeginsOwn, Over, Stored, sessions, tasks
    <3>2. \A v \in Uploads : v # x => BeginsOwn(v)'
      BY <1>1, <2>2 DEF BeginsOwn, Over, Stored, Completed, sessions, tasks
    <3> QED
      BY <3>1, <3>2
  <2>4. \A a \in archived' : \E e \in listed' : e[1] = a
    BY <2>1, <2>2 DEF SweepIsComplete
  <2>5. \A a \in Uploads : sha'[a] # NoHash /\ (sweep' = "idle" \/ Active(a)') => key'[a] \in objects
    <3>1. ASSUME NEW a \in Uploads, sha'[a] # NoHash, sweep' = "idle" \/ Active(a)' PROVE key'[a] \in objects
      <4>1. a # x /\ sha[a] # NoHash /\ Stored(a)
        BY <2>2, <3>1 DEF BeginsOwn
      <4>2. Active(a)
        BY <2>2, <2>4, <3>1, <4>1 DEF Active, Stored
      <4> QED
        BY <2>2, <4>1, <4>2 DEF SweepIsComplete
    <3> QED
      BY <3>1
  <2>6. SweepIsComplete'
    BY <2>2, <2>4, <2>5 DEF SweepIsComplete, SweepSpares
  <2> QED
    BY <1>2, <1>4, <2>3, <2>6
<1> QED
  BY <1>5, <1>6

LEMMA RestoringInvariant == Spec => []RestoringInv
<1>1. Init => RestoringInv
  BY DEF Init, RestoringInv, RestoringFacts, OneRuns, BeginsOwn, SweepIsComplete, SweepSpares, Known, Stored, Running
<1>2. TypeInv /\ StoresOnce /\ RestoringInv /\ [Next]_vars => RestoringInv'
  <2> SUFFICES ASSUME TypeInv, StoresOnce, RestoringInv, [Next]_vars, Restoring' PROVE RestoringFacts'
    BY DEF RestoringInv
  <2>1. Restoring
    BY EventsFixed DEF Restoring
  <2>2. CASE UNCHANGED vars
    BY <2>1, <2>2 DEF RestoringInv, RestoringFacts, OneRuns, BeginsOwn, SweepIsComplete, SweepSpares, Known, Stored,
       Active, Over, Completed, vars, sessions, assets, tasks, trash
  <2> QED
    BY <2>1, <2>2, UploadKeepsRestoring, ProcessKeepsRestoring, TrashKeepsRestoring DEF Next, RestoringInv
<1> QED
  BY <1>1, <1>2, TypeInvariant, StoresOnceInvariant, PTL DEF Spec

-----------------------------------------------------------------------------
(* The third case: hashes are declared, or tasks run at the same time, but *)
(* files of one content are uploaded one after the other.                  *)
InTurn ==
  /\ events \intersect {"twins", "overwrite"} = {}
  /\ ~({"trash", "restore"} \subseteq events)
  /\ "pool" \in events => "trash" \notin events

Settled(a) == Active(a) /\ status[a] = "ready"

(* One upload of a content at a time, and all its objects have the content *)
(* of the upload: an asset without its hash yet cannot be a duplicate.     *)
KeepsContent(u) ==
  /\ target[u] = u /\ previous[u] = NoKey
  /\ session[u] # "none" => content[file[u]] = content[u]
  /\ Stored(u) => content[key[u]] = content[u] /\ Completed(u) /\ task[u] # "unsent"
  /\ sha[u] \in {NoHash, content[u]}
  /\ Stored(u) /\ Over(u) => status[u] = "ready"
  /\ status[u] = "ready" => (Over(u) \/ task[u] = "failing") /\ sha[u] = content[u]
  /\ task[u] \in {"working", "searching", "removing", "updating"} => content[own[u]] = content[u]
  /\ task[u] = "searching" => own[u] \in objects
  /\ task[u] \in {"removing", "updating"} =>
       /\ chosen[u] \in objects /\ content[chosen[u]] = content[u]
       /\ \A a \in Uploads : Settled(a) /\ content[a] = content[u] => key[a] = chosen[u]
  /\ task[u] = "removing" => chosen[u] # own[u]

SettledAreShared ==
  /\ \A a \in Uploads : Settled(a) => key[a] \in objects
  /\ \A a, b \in Uploads : Settled(a) /\ Settled(b) /\ content[a] = content[b] => key[a] = key[b]
  /\ sweep = "removing" => \A a \in Uploads : Settled(a) => key[a] # item[2]

OneUnderWay == \A u, v \in Uploads : content[u] = content[v] /\ UnderWay(u) /\ UnderWay(v) => u = v

InTurnFacts ==
  /\ "pool" \notin events => OneRuns
  /\ "trash" \notin events => archived = {} /\ sweep = "idle"
  /\ OneUnderWay
  /\ \A u \in Uploads : KeepsContent(u)
  /\ SettledAreShared

InTurnInv == InTurn => InTurnFacts

(* The trash is emptied only while no task runs.                           *)
LEMMA SweepAlone ==
  ASSUME InTurn, InTurnFacts, sweep # "idle" PROVE \A v \in Uploads : task[v] \notin Running
BY DEF InTurn, InTurnFacts, OneRuns

LEMMA UploadKeepsTurn ==
  ASSUME TypeInv, StoresOnce, InTurn, InTurnFacts, NEW u \in Uploads, Upload(u)
  PROVE  InTurnFacts'
<1> USE DEF InTurnFacts, TypeInv
<1>1. target[u] = u /\ KeepsContent(u)
  BY DEF KeepsContent
<1>2. events' = events /\ content' = content
  BY DEF Upload, Initialize, Put, ReadTarget, StoreAsset
<1>3. CASE StoreAsset(u)
  <2>1. /\ UNCHANGED <<target, file, previous, own, chosen, objects, trash>>
        /\ session[u] \in {"pending", "reused"} /\ ~Stored(u) /\ task[u] = "unsent" /\ content[file[u]] = content[u]
    BY <1>1, <1>3 DEF StoreAsset, StoresOnce, Completed, KeepsContent
  <2>2. /\ session'[u] = "completed" /\ task'[u] = "queued" /\ status'[u] = "processing"
        /\ key'[u] = file[u] /\ sha'[u] \in {NoHash, content[u]} /\ archived' = archived \ {u}
    BY <1>1, <1>3, <2>1 DEF StoreAsset, Goto, TypeOK
  <2>3. \A v \in Uploads : v # u => /\ session'[v] = session[v] /\ task'[v] = task[v] /\ status'[v] = status[v]
                                    /\ key'[v] = key[v] /\ sha'[v] = sha[v]
    BY <1>1, <1>3 DEF StoreAsset, Goto, TypeOK
  <2>4. \A v \in Uploads : (Settled(v)' <=> Settled(v)) /\ (v # u => key'[v] = key[v]) /\ ~Settled(u)
    BY <2>1, <2>2, <2>3 DEF Settled, Active, Stored
  <2>5. "pool" \notin events => OneRuns'
    BY <2>1, <2>2, <2>3 DEF OneRuns, Running, trash
  <2>6. OneUnderWay'
    BY <1>2, <2>1, <2>2, <2>3 DEF OneUnderWay, UnderWay
  <2>7. KeepsContent(u)'
    BY <1>1, <1>2, <2>1, <2>2 DEF KeepsContent, Over, Stored, Completed
  <2>8. ASSUME NEW v \in Uploads, v # u PROVE KeepsContent(v)'
    BY <1>2, <2>1, <2>3, <2>4, <2>8 DEF KeepsContent, Over, Stored, Completed
  <2>9. SettledAreShared'
    BY <1>2, <2>1, <2>4 DEF SettledAreShared, trash
  <2> QED
    BY <1>2, <2>1, <2>2, <2>5, <2>6, <2>7, <2>8, <2>9 DEF trash
<1>4. CASE Initialize(u)
  <2>1. /\ UNCHANGED <<objects, previous, assets, tasks, trash>> /\ session[u] = "none" /\ task[u] = "unsent"
        /\ target'[u] = u /\ session'[u] \in {"pending", "reused"}
        /\ \A v \in Uploads : content[v] = content[u] => ~UnderWay(v)
    BY <1>4 DEF Initialize, OpenTransfer, OpenReuse, InTurn, StoresOnce, Completed, TypeOK
  <2>2. \A v \in Uploads : v # u => session'[v] = session[v] /\ file'[v] = file[v] /\ target'[v] = target[v]
    BY <1>4 DEF Initialize, OpenTransfer, OpenReuse, TypeOK
  <2>3. content[file'[u]] = content[u]
    <3>1. \A d \in SameContent(content[u]) : d \in Uploads /\ Stored(d) /\ content[d] = content[u]
      BY NoHashAssumption DEF SameContent, Active, KeepsContent, TypeOK
    <3>2. file'[u] = u \/ \E d \in SameContent(content[u]) : file'[u] = key[d]
      BY <1>4 DEF Initialize, OpenTransfer, OpenReuse, TypeOK
    <3> QED
      BY <3>1, <3>2 DEF KeepsContent
  <2>4. OneUnderWay'
    BY <1>2, <2>1, <2>2 DEF OneUnderWay, UnderWay, tasks
  <2>5. \A v \in Uploads : (Settled(v)' <=> Settled(v)) /\ (Stored(v)' <=> Stored(v)) /\ (Over(v)' <=> Over(v))
    BY <2>1 DEF Settled, Active, Stored, Over, assets, tasks
  <2>6. KeepsContent(u)'
    BY <1>1, <1>2, <2>1, <2>3, <2>5 DEF KeepsContent, Completed, assets, tasks
  <2>7. ASSUME NEW v \in Uploads, v # u PROVE KeepsContent(v)'
    BY <1>2, <2>1, <2>2, <2>5, <2>7 DEF KeepsContent, Completed, assets, tasks
  <2>8. SettledAreShared' /\ (OneRuns => OneRuns')
    BY <1>2, <2>1, <2>5 DEF SettledAreShared, OneRuns, assets, tasks, trash
  <2> QED
    BY <1>2, <2>1, <2>4, <2>6, <2>7, <2>8 DEF assets, trash
<1>5. CASE Put(u) \/ ReadTarget(u)
  <2>1. /\ UNCHANGED <<session, file, target, previous, assets, tasks, trash>> /\ objects \subseteq objects'
    BY <1>1, <1>5 DEF Put, ReadTarget, sessions
  <2>2. \A v \in Uploads : (Settled(v)' <=> Settled(v)) /\ (Stored(v)' <=> Stored(v)) /\ (Over(v)' <=> Over(v))
    BY <2>1 DEF Settled, Active, Stored, Over, assets, tasks
  <2>3. ASSUME NEW v \in Uploads PROVE KeepsContent(v)'
    BY <1>2, <2>1, <2>2 DEF KeepsContent, Completed, assets, tasks
  <2>4. SettledAreShared' /\ OneUnderWay' /\ (OneRuns => OneRuns')
    BY <1>2, <2>1, <2>2 DEF SettledAreShared, OneUnderWay, UnderWay, OneRuns, assets, tasks, trash
  <2> QED
    BY <1>2, <2>1, <2>3, <2>4 DEF assets, trash
<1> QED
  BY <1>3, <1>4, <1>5 DEF Upload

LEMMA ProcessKeepsTurn ==
  ASSUME TypeInv, StoresOnce, InTurn, InTurnFacts, NEW u \in Uploads, Process(u)
  PROVE  InTurnFacts'
<1> USE DEF InTurnFacts, TypeInv
<1>1. /\ UNCHANGED <<content, sessions, archived, trash>>
      /\ \A v \in Uploads : v # u => task'[v] = task[v] /\ own'[v] = own[v] /\ chosen'[v] = chosen[v]
  BY ProcessFrame
<1>2. events' = events /\ ("pool" \notin events => OneRuns')
  <2>1. events' = events
    BY DEF Process, Take, ReadAsset, Work, Search, RemoveOwn, Update, CheckReplaced, RemoveReplaced, Finish, Raise,
       FailAsset, Retry
  <2> QED
    BY <2>1, ProcessKeepsAlone
<1>3. /\ target[u] = u /\ previous[u] = NoKey /\ KeepsContent(u) /\ target'[u] = u /\ previous'[u] = NoKey
      /\ sweep' = sweep /\ archived' = archived
  BY <1>1 DEF KeepsContent, sessions, trash
<1>4. UnderWay(u)
  BY DEF UnderWay, Process, Take, ReadAsset, Work, Search, RemoveOwn, Update, CheckReplaced, RemoveReplaced, Finish,
     Raise, FailAsset, Retry, Running
<1>5. OneUnderWay' /\ \A v \in Uploads : v # u /\ UnderWay(v) => content[v] # content[u]
  BY <1>1, <1>4 DEF OneUnderWay, UnderWay, sessions
<1>6. \A v \in Uploads :
        (/\ v # u
         /\ status'[v] = status[v] /\ key'[v] = key[v] /\ sha'[v] = sha[v]
         /\ \A k \in objects : k \in objects' \/ content[k] = content[u]
         /\ \A a \in Uploads : a # u /\ Settled(a)' => Settled(a) /\ key'[a] = key[a])
        => KeepsContent(v)'
  <2> TAKE v \in Uploads
  <2> HAVE /\ v # u
           /\ status'[v] = status[v] /\ key'[v] = key[v] /\ sha'[v] = sha[v]
           /\ \A k \in objects : k \in objects' \/ content[k] = content[u]
           /\ \A a \in Uploads : a # u /\ Settled(a)' => Settled(a) /\ key'[a] = key[a]
  <2>1. KeepsContent(v) /\ task'[v] = task[v] /\ own'[v] = own[v] /\ chosen'[v] = chosen[v]
    BY <1>1
  <2>2. task[v] \in {"searching", "removing", "updating"} => content[v] # content[u]
    BY <1>5 DEF UnderWay
  <2>3. /\ task[v] = "searching" => own[v] \in objects'
        /\ task[v] \in {"removing", "updating"} =>
             /\ chosen[v] \in objects'
             /\ \A a \in Uploads : Settled(a)' /\ content[a] = content[v] => key'[a] = chosen[v]
    BY <2>1, <2>2 DEF KeepsContent
  <2> QED
    BY <1>1, <2>1, <2>3 DEF KeepsContent, Over, Stored, Completed, sessions
<1>7. CASE Quiet(u)
  <2>1. UNCHANGED <<key, sha, objects>> /\ \A v \in Uploads : v # u => status'[v] = status[v]
    BY <1>3, <1>7, QuietFrame
  <2>2. \A a \in Uploads : (Stored(a)' <=> Stored(a)) /\ (Active(a)' <=> Active(a))
    BY <1>7, QuietFrame
  <2>3. status'[u] = "ready" => status[u] = "ready"
    BY <1>3, <1>7, QuietFrame
  <2>4. \A a \in Uploads : Settled(a)' => Settled(a)
    BY <2>1, <2>2, <2>3 DEF Settled
  <2>5. SettledAreShared'
    BY <1>1, <2>1, <2>4 DEF SettledAreShared, trash
  <2>6. /\ \/ task'[u] \in {"reading", "finishing", "ended", "queued", "failing", "failed", "cleaning"}
           \/ task'[u] = "working" /\ content[own'[u]] = content[u]
           \/ task'[u] = "searching" /\ content[own'[u]] = content[u] /\ own'[u] \in objects
        /\ task'[u] # "unsent"
    BY <1>3, <1>7, QuietFrame DEF KeepsContent
  <2>7. /\ Stored(u)' /\ Over(u)' => status'[u] = "ready"
        /\ status'[u] = "ready" => Over(u)' \/ task'[u] = "failing"
    <3>1. CASE Take(u) \/ ReadAsset(u) \/ Work(u)
      BY <1>3, <3>1 DEF Take, ReadAsset, Work, Goto, Leave, assets, KeepsContent, Over, Stored, TypeOK
    <3>2. CASE CheckReplaced(u) \/ Finish(u)
      BY <1>3, <3>2 DEF CheckReplaced, Finish, Goto, Leave, assets, KeepsContent, Over, Stored, TypeOK
    <3>3. CASE Raise(u)
      BY <1>3, <3>3 DEF Raise, Goto, Leave, assets, KeepsContent, Over, Stored, TypeOK
    <3>4. CASE FailAsset(u) \/ Retry(u)
      BY <1>3, <3>4 DEF FailAsset, Retry, Goto, SetStatus, KeepsContent, Over, Stored, TypeOK
    <3> QED
      BY <1>7, <3>1, <3>2, <3>3, <3>4 DEF Quiet
  <2>8. KeepsContent(u)'
    BY <1>1, <1>3, <2>1, <2>2, <2>3, <2>6, <2>7 DEF KeepsContent, Completed, sessions
  <2>9. \A v \in Uploads : v # u => KeepsContent(v)'
    BY <1>6, <2>1, <2>4
  <2> QED
    BY <1>2, <1>3, <1>5, <2>5, <2>8, <2>9
<1>8. CASE Search(u)
  <2>1. /\ UNCHANGED <<objects, assets, own>> /\ task[u] = "searching" /\ content[own[u]] = content[u] /\ own[u] \in objects
        /\ task'[u] = IF chosen'[u] = own[u] THEN "updating" ELSE "removing"
    BY <1>3, <1>8 DEF Search, Goto, TypeOK, KeepsContent
  <2>2. \A a \in Uploads : (Settled(a)' <=> Settled(a))
    BY <1>1, <2>1 DEF Settled, Active, Stored, assets
  <2>3. \A d \in Duplicates(u) : d \in Uploads /\ d # u /\ Active(d) /\ Stored(d) /\ content[d] = content[u]
    BY <1>3, <2>1, NoHashAssumption DEF Duplicates, SameContent, Active, KeepsContent, TypeOK
  <2>4. ASSUME NEW d \in Duplicates(u) PROVE Settled(d)
    <3>1. ~UnderWay(d) /\ KeepsContent(d)
      BY <1>5, <2>3
    <3>2. Over(d)
      BY <2>3, <3>1 DEF UnderWay, KeepsContent, Over
    <3> QED
      BY <2>3, <3>1, <3>2 DEF Settled, KeepsContent
  <2>5. ASSUME NEW a \in Uploads, Settled(a), content[a] = content[u] PROVE a \in Duplicates(u)
    <3>1. a # u
      BY <1>3, <2>1, <2>5 DEF Settled, KeepsContent, Over
    <3> QED
      BY <1>3, <2>1, <2>5, <3>1 DEF Settled, KeepsContent, Duplicates, SameContent
  <2>6. /\ chosen'[u] \in objects /\ content[chosen'[u]] = content[u]
        /\ \A a \in Uploads : Settled(a) /\ content[a] = content[u] => key[a] = chosen'[u]
    <3>1. CASE Duplicates(u) = {}
      <4>1. chosen'[u] = own[u]
        BY <1>8, <3>1 DEF Search, TypeOK
      <4> QED
        BY <2>1, <2>5, <3>1, <4>1
    <3>2. CASE Duplicates(u) # {}
      <4>1. PICK d \in Duplicates(u) : chosen'[u] = key[d]
        BY <1>8, <3>2 DEF Search, TypeOK
      <4> QED
        BY <2>3, <2>4, <4>1 DEF SettledAreShared, KeepsContent
    <3> QED
      BY <3>1, <3>2
  <2>7. KeepsContent(u)'
    <3>1. status[u] # "ready"
      BY <1>3, <2>1 DEF KeepsContent, Over
    <3> QED
      BY <1>1, <1>3, <2>1, <2>2, <2>6, <3>1 DEF KeepsContent, Over, Stored, Completed, assets, sessions
  <2>8. \A v \in Uploads : v # u => KeepsContent(v)'
    BY <1>6, <2>1, <2>2 DEF assets
  <2>9. SettledAreShared'
    BY <1>1, <2>1, <2>2 DEF SettledAreShared, assets, trash
  <2> QED
    BY <1>2, <1>3, <1>5, <2>7, <2>8, <2>9
<1>9. CASE RemoveOwn(u) \/ RemoveReplaced(u)
  <2>1. /\ UNCHANGED assets /\ task[u] \in Running
        /\ \/ /\ task[u] = "removing" /\ task'[u] = "updating" /\ own'[u] = own[u] /\ chosen'[u] = chosen[u]
              /\ objects' = objects \ {own[u]}
           \/ task[u] = "cleaning" /\ task'[u] = "finishing" /\ objects' = objects
    <3>1. objects \ {NoKey} = objects
      BY NoKeyAssumption DEF TypeOK
    <3> QED
      BY <1>3, <1>9, <3>1 DEF RemoveOwn, RemoveReplaced, Goto, Leave, Running, TypeOK
  <2>2. \A a \in Uploads : (Settled(a)' <=> Settled(a))
    BY <1>1, <2>1 DEF Settled, Active, Stored, assets
  <2>3. \A k \in objects : k \in objects' \/ content[k] = content[u]
    BY <1>3, <2>1 DEF KeepsContent
  <2>4. \A a \in Uploads : Settled(a) => key[a] \in objects'
    <3>1. ASSUME NEW a \in Uploads, Settled(a), task[u] = "removing" PROVE key[a] # own[u]
      <4>1. content[key[a]] = content[a]
        BY <3>1 DEF KeepsContent, Settled, Active
      <4> QED
        BY <1>3, <3>1, <4>1 DEF KeepsContent
    <3> QED
      BY <2>1, <3>1 DEF SettledAreShared
  <2>5. KeepsContent(u)'
    BY <1>1, <1>3, <2>1, <2>2 DEF KeepsContent, Over, Stored, Completed, assets, sessions
  <2>6. \A v \in Uploads : v # u => KeepsContent(v)'
    BY <1>6, <2>1, <2>2, <2>3 DEF assets
  <2>7. SettledAreShared'
    BY <1>1, <2>1, <2>2, <2>4 DEF SettledAreShared, assets, trash
  <2> QED
    BY <1>2, <1>3, <1>5, <2>5, <2>6, <2>7
<1>10. CASE Update(u)
  <2>1. /\ UNCHANGED <<objects, own, chosen>> /\ task[u] = "updating" /\ task'[u] = "checking"
        /\ chosen[u] \in objects /\ content[chosen[u]] = content[u] /\ content[own[u]] = content[u]
    BY <1>3, <1>10 DEF Update, Goto, TypeOK, KeepsContent
  <2>2. sweep = "idle"
    BY <2>1, SweepAlone DEF Running
  <2>3. /\ \A v \in Uploads : v # u => status'[v] = status[v] /\ key'[v] = key[v] /\ sha'[v] = sha[v]
        /\ \/ Stored(u)' /\ Stored(u) /\ key'[u] = chosen[u] /\ sha'[u] = content[u] /\ status'[u] = "ready"
           \/ ~Stored(u) /\ status'[u] = "absent" /\ key'[u] = key[u] /\ sha'[u] = sha[u]
    BY <1>3, <1>10, <2>1 DEF Update, SetStatus, Stored, TypeOK
  <2>4. /\ \A v \in Uploads : v # u => (Settled(v)' <=> Settled(v))
        /\ Settled(u)' => key'[u] = chosen[u]
    BY <1>1, <2>3 DEF Settled, Active, Stored
  <2>5. KeepsContent(u)'
    BY <1>1, <1>3, <2>1, <2>3 DEF KeepsContent, Over, Stored, Completed, sessions
  <2>6. \A v \in Uploads : v # u => KeepsContent(v)'
    BY <1>6, <2>1, <2>3, <2>4
  <2>7. SettledAreShared'
    <3>1. \A a \in Uploads : Settled(a) /\ content[a] = content[u] => key[a] = chosen[u]
      BY <1>3, <2>1 DEF KeepsContent
    <3> QED
      BY <1>1, <2>1, <2>2, <2>3, <2>4, <3>1 DEF SettledAreShared, trash
  <2> QED
    BY <1>2, <1>3, <1>5, <2>5, <2>6, <2>7
<1> QED
  BY <1>7, <1>8, <1>9, <1>10 DEF Process, Quiet

LEMMA TrashKeepsTurn ==
  ASSUME TypeInv, InTurn, InTurnFacts,
         \/ EmptyTrash
         \/ \E a \in Uploads : Archive(a) \/ Restore(a)
  PROVE  InTurnFacts'
<1> USE DEF InTurnFacts, TypeInv
<1>1. UNCHANGED <<events, content, sessions, tasks>>
  BY DEF EmptyTrash, Archive, Restore, ListTrash, CountReferences, RemoveListed, DeleteAsset, SkipAsset
<1>2. OneUnderWay' /\ \A v : Over(v)' <=> Over(v)
  BY <1>1 DEF OneUnderWay, UnderWay, Over, sessions, tasks
<1>3. "trash" \in events /\ ~\E a \in Uploads : Restore(a)
  BY DEF EmptyTrash, Archive, Restore, ListTrash, CountReferences, RemoveListed, DeleteAsset, SkipAsset, InTurn
<1>4. (\A v \in Uploads : task[v] \notin Running) \/ (sweep' = sweep /\ objects' = objects)
  <2>1. CASE EmptyTrash
    BY <1>3, <2>1, SweepAlone DEF EmptyTrash, ListTrash, CountReferences, RemoveListed, DeleteAsset, SkipAsset,
       WorkerFree, InTurn
  <2>2. CASE \E a \in Uploads : Archive(a)
    BY <2>2 DEF Archive, trash
  <2> QED
    BY <1>3, <2>1, <2>2
<1>5. "pool" \notin events => OneRuns'
  BY <1>1, <1>4 DEF OneRuns, tasks
<1>6. \A a \in Uploads : Settled(a)' => Settled(a) /\ key'[a] = key[a]
  <2>1. CASE \E a \in Uploads : Archive(a)
    BY <2>1 DEF Archive, Settled, Active, Stored
  <2>2. CASE ListTrash \/ CountReferences \/ RemoveListed \/ SkipAsset
    BY <2>2 DEF ListTrash, CountReferences, RemoveListed, SkipAsset, Settled, Active, Stored, assets
  <2>3. CASE DeleteAsset
    <3>1. PICK i : i = item[1]
      OBVIOUS
    <3> QED
      BY <2>3, <3>1 DEF DeleteAsset, Settled, Active, Stored, TypeOK
  <2> QED
    BY <1>3, <2>1, <2>2, <2>3 DEF EmptyTrash
<1>7. ASSUME NEW v \in Uploads PROVE KeepsContent(v)'
  <2>1. \/ status'[v] = status[v] /\ key'[v] = key[v] /\ sha'[v] = sha[v]
        \/ status'[v] = "absent" /\ sha'[v] = NoHash
    <3>1. CASE DeleteAsset
      <4>1. PICK i : i = item[1]
        OBVIOUS
      <4> QED
        BY <3>1, <4>1 DEF DeleteAsset, TypeOK
    <3>2. CASE ~DeleteAsset
      BY <3>2 DEF EmptyTrash, Archive, Restore, ListTrash, CountReferences, RemoveListed, SkipAsset, assets
    <3> QED
      BY <3>1, <3>2
  <2>2. KeepsContent(v)
    BY DEF InTurnFacts
  <2> QED
    BY <1>1, <1>2, <1>4, <1>6, <2>1, <2>2 DEF KeepsContent, Stored, Completed, Running, sessions, tasks
<1>8. SettledAreShared'
  <2>1. \A a \in Uploads : Settled(a) => key[a] \in objects'
    BY DEF EmptyTrash, Archive, Restore, ListTrash, CountReferences, RemoveListed, DeleteAsset, SkipAsset,
       SettledAreShared
  <2>2. ASSUME NEW a \in Uploads, Settled(a), sweep' = "removing" PROVE key[a] # item'[2]
    BY <2>2 DEF EmptyTrash, Archive, Restore, ListTrash, CountReferences, RemoveListed, DeleteAsset, SkipAsset,
       NextItem, SettledAreShared, Used, Settled, trash
  <2> QED
    BY <1>1, <1>6, <2>1, <2>2 DEF SettledAreShared
<1> QED
  BY <1>1, <1>2, <1>3, <1>5, <1>7, <1>8

LEMMA InTurnInvariant == Spec => []InTurnInv
<1>1. Init => InTurnInv
  BY DEF Init, InTurnInv, InTurnFacts, OneRuns, OneUnderWay, UnderWay, KeepsContent, SettledAreShared, Settled, Active,
     Stored, Over, Running
<1>2. TypeInv /\ StoresOnce /\ InTurnInv /\ [Next]_vars => InTurnInv'
  <2> SUFFICES ASSUME TypeInv, StoresOnce, InTurnInv, [Next]_vars, InTurn' PROVE InTurnFacts'
    BY DEF InTurnInv
  <2>1. InTurn
    BY EventsFixed DEF InTurn
  <2>2. CASE UNCHANGED vars
    BY <2>1, <2>2 DEF InTurnInv, InTurnFacts, OneRuns, OneUnderWay, UnderWay, KeepsContent, SettledAreShared, Settled,
       Active, Stored, Over, Completed, vars, sessions, assets, tasks, trash
  <2> QED
    BY <2>1, <2>2, UploadKeepsTurn, ProcessKeepsTurn, TrashKeepsTurn DEF Next, InTurnInv
<1> QED
  BY <1>1, <1>2, TypeInvariant, StoresOnceInvariant, PTL DEF Spec

-----------------------------------------------------------------------------
(* The three cases together are the careful environments.                  *)
LEMMA CarefulCases == Careful => Undeclared \/ Restoring \/ InTurn
BY DEF Careful, Undeclared, Restoring, InTurn

LEMMA ReadyIsKnown ==
  ASSUME UndeclaredInv, RestoringInv, Undeclared \/ Restoring, NEW a \in Uploads, Active(a), status[a] = "ready"
  PROVE  sha[a] # NoHash /\ key[a] \in objects
<1>1. CASE Undeclared
  BY <1>1 DEF UndeclaredInv, UndeclaredFacts, HashesAreTrue, KnownAreShared, Known
<1>2. CASE Restoring
  BY <1>2 DEF RestoringInv, RestoringFacts, BeginsOwn, SweepIsComplete
<1> QED
  BY <1>1, <1>2

(* In every careful environment an asset that the library shows as ready   *)
(* has its file: neither process_asset, when it removes a duplicate or a   *)
(* replaced object, nor empty_trash ever takes it away.                    *)
THEOREM FilesStay == Spec => []FilesAreKept
<1>1. UndeclaredInv /\ RestoringInv /\ InTurnInv => FilesAreKept
  <2> SUFFICES ASSUME UndeclaredInv, RestoringInv, InTurnInv, Careful,
                      NEW a \in Uploads, Active(a), status[a] = "ready"
               PROVE  key[a] \in objects
    BY DEF FilesAreKept, ReadyHasObject
  <2>1. CASE Undeclared \/ Restoring
    BY <2>1, ReadyIsKnown
  <2>2. CASE InTurn
    BY <2>2 DEF InTurnInv, InTurnFacts, SettledAreShared, Settled
  <2> QED
    BY <2>1, <2>2, CarefulCases
<1> QED
  BY <1>1, UndeclaredInvariant, RestoringInvariant, InTurnInvariant, PTL

(* In a careful environment where nothing goes to the trash, ready assets  *)
(* of one content have one object between them, however often the file     *)
(* was uploaded.                                                           *)
THEOREM ContentsAreStoredOnce == Spec => []DuplicatesAreShared
<1>1. UndeclaredInv /\ RestoringInv /\ InTurnInv => DuplicatesAreShared
  <2> SUFFICES ASSUME UndeclaredInv, RestoringInv, InTurnInv, Careful, "trash" \notin events,
                      NEW a \in Uploads, NEW b \in Uploads, Active(a), status[a] = "ready",
                      Active(b), status[b] = "ready", sha[a] = sha[b]
               PROVE  key[a] = key[b]
    BY DEF DuplicatesAreShared, StoredOnce
  <2>1. CASE Undeclared
    BY <2>1 DEF UndeclaredInv, UndeclaredFacts, HashesAreTrue, KnownAreShared, Known
  <2>2. CASE InTurn
    BY <2>2 DEF InTurnInv, InTurnFacts, SettledAreShared, KeepsContent, Settled
  <2>3. Undeclared \/ InTurn
    BY CarefulCases DEF Undeclared, Restoring, InTurn
  <2> QED
    BY <2>1, <2>2, <2>3
<1> QED
  BY <1>1, UndeclaredInvariant, RestoringInvariant, InTurnInvariant, PTL

-----------------------------------------------------------------------------
(* Catalogue                                                               *)

CategorySteps == {"counting", "dropping", "renaming", "moving"}
NameSteps == {"renaming", "moving", "ensuring", "defining"}
MetricSteps == {"ensuring", "defining", "removing", "clearing"}
FormatSteps == {"comparing", "adding", "checking", "changing", "using", "withdrawing", "uploading"}

(* A request knows what its step works on.                                 *)
Knows(q) ==
  /\ q.at \in CategorySteps => q.category \in Categories /\ q.old \in Names
  /\ q.at \in NameSteps => q.name \in Names
  /\ q.at \in MetricSteps => q.metric \in Metrics
  /\ q.at \in {"looking", "saving"} => q.model \in Models
  /\ q.at \in {"searching", "untagging"} => q.tag \in Tags
  /\ q.at \in {"reading", "tagging"} => q.asset \in Assets
  /\ q.at \in FormatSteps => q.type \in Types

RequestsKnow == \A r \in Requests : Knows(req[r])

CatalogueTypeInv == CatalogueTypeOK /\ RequestsKnow

AskingKeepsTypes == req' \in [Requests -> Request] /\ RequestsKnow'

LEMMA NoRequestYet ==
  /\ NewRequest \in Request
  /\ [NewRequest EXCEPT !.at = "done"] \in Request
  /\ Knows(NewRequest) /\ Knows([NewRequest EXCEPT !.at = "done"])
<1>1. NewRequest \in Request /\ [NewRequest EXCEPT !.at = "done"] \in Request
  BY DEF NewRequest, Request, Steps
<1> QED
  BY <1>1 DEF NewRequest, Knows, CategorySteps, NameSteps, MetricSteps, FormatSteps

LEMMA AskingKept ==
  ASSUME CatalogueTypeInv, NEW r \in Requests, NEW q \in Request, Set(r, q), Knows(q)
  PROVE  AskingKeepsTypes
BY DEF CatalogueTypeInv, CatalogueTypeOK, RequestsKnow, Set, AskingKeepsTypes

LEMMA EndingKept ==
  ASSUME CatalogueTypeInv, NEW r \in Requests, End(r)
  PROVE  AskingKeepsTypes
BY NoRequestYet, AskingKept DEF End

(* The next step of a request needs nothing that the last one did not know. *)
LEMMA MovingKept ==
  ASSUME CatalogueTypeInv, NEW r \in Requests, NEW s \in Steps, At(r, s),
         Knows([req[r] EXCEPT !.at = s])
  PROVE  AskingKeepsTypes
<1>1. [req[r] EXCEPT !.at = s] \in Request
  BY DEF CatalogueTypeInv, CatalogueTypeOK, Request
<1> QED
  BY <1>1, AskingKept DEF At

(* The steps from one to the next, and what they need.                     *)
Follows(s, t) ==
  \/ s \in CategorySteps /\ t \in {"dropping"}
  \/ s = "renaming" /\ t = "moving"
  \/ s = "ensuring" /\ t = "defining"
  \/ s = "removing" /\ t = "clearing"
  \/ s = "looking" /\ t = "saving"
  \/ s = "searching" /\ t = "untagging"
  \/ s \in FormatSteps /\ t \in {"adding", "changing", "withdrawing"}

LEMMA FollowingKept ==
  ASSUME CatalogueTypeInv, NEW r \in Requests, NEW s, At(r, s), Follows(req[r].at, s)
  PROVE  AskingKeepsTypes
<1>1. s \in Steps
  BY DEF Follows, Steps
<1> DEFINE p == req[r]
<1> DEFINE q == [p EXCEPT !.at = s]
<1>2. p \in Request /\ Knows(p)
  BY DEF CatalogueTypeInv, CatalogueTypeOK, RequestsKnow
<1>3. /\ q.at = s /\ q.category = p.category /\ q.old = p.old /\ q.name = p.name
      /\ q.metric = p.metric /\ q.model = p.model /\ q.tag = p.tag /\ q.asset = p.asset
      /\ q.type = p.type
  BY <1>2 DEF Request
<1>4. Follows(p.at, s)
  OBVIOUS
<1>5. At(r, s) <=> Set(r, q)
  BY DEF At
<1>6. q \in Request
  BY <1>1, <1>2 DEF Request
<1> HIDE DEF p, q
<1>7. Knows(q)
  BY <1>2, <1>3, <1>4 DEF Follows, Knows, CategorySteps, NameSteps, MetricSteps, FormatSteps
<1> QED
  BY <1>5, <1>6, <1>7, AskingKept

LEMMA CheckingKept ==
  ASSUME CatalogueTypeInv, NEW r \in Requests, NEW s, NEW ok, Checked(r, ok, s), ok => Follows(req[r].at, s)
  PROVE  AskingKeepsTypes
BY FollowingKept, EndingKept DEF Checked

(* The steps requests begin with.                                          *)
FirstSteps == {"counting", "renaming", "ensuring", "removing", "looking", "searching", "reading",
               "comparing", "checking", "using", "uploading"}

LEMMA AnyStep == FirstSteps \subseteq Steps
BY DEF FirstSteps, Steps

LEMMA MetricRequestsKeepTypes ==
  ASSUME CatalogueTypeInv, NEW r \in Requests, MetricStep(r)
  PROVE  AskingKeepsTypes
<1>0. CatalogueTypeOK
  BY DEF CatalogueTypeInv
<1>1. CASE CreateCategory(r) \/ DropCategory(r) \/ MoveMetrics(r) \/ DefineMetric(r) \/ ClearValues(r) \/ SaveValues(r)
  BY <1>1, EndingKept DEF CreateCategory, DropCategory, MoveMetrics, DefineMetric, ClearValues, SaveValues
<1>2. CASE StartDeleteCategory(r)
  <2>1. PICK c \in Categories :
          /\ category[c] # Nothing
          /\ Set(r, [NewRequest EXCEPT !.at = "counting", !.category = c, !.old = category[c]])
    BY <1>2 DEF StartDeleteCategory
  <2>2. PICK n \in Names : n = category[c]
    BY <1>0, <2>1 DEF CatalogueTypeOK
  <2> DEFINE q == [NewRequest EXCEPT !.at = "counting", !.category = c, !.old = n]
  <2>3. q \in Request
    BY AnyStep DEF FirstSteps, NewRequest, Request
  <2>4. Knows(q)
    BY DEF NewRequest, Knows, CategorySteps, NameSteps, MetricSteps, FormatSteps
  <2>5. Set(r, q)
    BY <2>1, <2>2
  <2> HIDE DEF q
  <2> QED BY <2>3, <2>4, <2>5, AskingKept
<1>3. CASE StartRename(r)
  <2>1. PICK c \in Categories, n \in Names :
          /\ category[c] \notin {Nothing, n}
          /\ Set(r, [NewRequest EXCEPT !.at = "renaming", !.category = c, !.old = category[c], !.name = n])
    BY <1>3 DEF StartRename
  <2>2. PICK o \in Names : o = category[c]
    BY <1>0, <2>1 DEF CatalogueTypeOK
  <2> DEFINE q == [NewRequest EXCEPT !.at = "renaming", !.category = c, !.old = o, !.name = n]
  <2>3. q \in Request
    BY AnyStep DEF FirstSteps, NewRequest, Request
  <2>4. Knows(q)
    BY DEF NewRequest, Knows, CategorySteps, NameSteps, MetricSteps, FormatSteps
  <2>5. Set(r, q)
    BY <2>1, <2>2
  <2> HIDE DEF q
  <2> QED BY <2>3, <2>4, <2>5, AskingKept
<1>4. CASE StartMetric(r)
  <2>1. PICK m \in Metrics, n \in Names : Set(r, [NewRequest EXCEPT !.at = "ensuring", !.metric = m, !.name = n])
    BY <1>4 DEF StartMetric
  <2> DEFINE q == [NewRequest EXCEPT !.at = "ensuring", !.metric = m, !.name = n]
  <2>2. q \in Request
    BY AnyStep DEF FirstSteps, NewRequest, Request
  <2>3. Knows(q)
    BY DEF NewRequest, Knows, CategorySteps, NameSteps, MetricSteps, FormatSteps
  <2> HIDE DEF q
  <2> QED BY <2>1, <2>2, <2>3, AskingKept DEF q
<1>5. CASE StartDeleteMetric(r)
  <2>1. PICK m \in Metrics : Set(r, [NewRequest EXCEPT !.at = "removing", !.metric = m])
    BY <1>5 DEF StartDeleteMetric
  <2> DEFINE q == [NewRequest EXCEPT !.at = "removing", !.metric = m]
  <2>2. q \in Request
    BY AnyStep DEF FirstSteps, NewRequest, Request
  <2>3. Knows(q)
    BY DEF NewRequest, Knows, CategorySteps, NameSteps, MetricSteps, FormatSteps
  <2> QED BY <2>1, <2>2, <2>3, AskingKept
<1>6. CASE StartSave(r)
  <2>1. PICK x \in Models, S \in SUBSET Metrics :
          Set(r, [NewRequest EXCEPT !.at = "looking", !.model = x, !.values = S])
    BY <1>6 DEF StartSave
  <2> DEFINE q == [NewRequest EXCEPT !.at = "looking", !.model = x, !.values = S]
  <2>2. q \in Request
    BY AnyStep DEF FirstSteps, NewRequest, Request
  <2>3. Knows(q)
    BY DEF NewRequest, Knows, CategorySteps, NameSteps, MetricSteps, FormatSteps
  <2> QED BY <2>1, <2>2, <2>3, AskingKept
<1>7. CASE CountMetrics(r)
  BY <1>7, CheckingKept DEF CountMetrics, Follows, CategorySteps
<1>8. CASE RenameCategory(r)
  BY <1>8, FollowingKept, EndingKept DEF RenameCategory, Follows
<1>9. CASE EnsureCategory(r)
  BY <1>9, CheckingKept DEF EnsureCategory, Follows
<1>10. CASE RemoveMetric(r)
  BY <1>10, FollowingKept DEF RemoveMetric, Follows
<1>11. CASE LookUpMetrics(r)
  BY <1>11, CheckingKept DEF LookUpMetrics, Follows
<1> QED
  BY <1>1, <1>2, <1>3, <1>4, <1>5, <1>6, <1>7, <1>8, <1>9, <1>10, <1>11 DEF MetricStep

LEMMA TagRequestsKeepTypes ==
  ASSUME CatalogueTypeInv, NEW r \in Requests, TagStep(r)
  PROVE  AskingKeepsTypes
<1>0. CatalogueTypeOK /\ Knows(req[r]) /\ req[r] \in Request
  BY DEF CatalogueTypeInv, CatalogueTypeOK, RequestsKnow
<1>1. CASE CreateTag(r) \/ DropTag(r) \/ WriteTags(r)
  BY <1>1, EndingKept DEF CreateTag, DropTag, WriteTags
<1>2. CASE StartDeleteTag(r)
  <2>1. PICK t \in Tags : Set(r, [NewRequest EXCEPT !.at = "searching", !.tag = t])
    BY <1>2, <1>0 DEF StartDeleteTag, CatalogueTypeOK
  <2> DEFINE q == [NewRequest EXCEPT !.at = "searching", !.tag = t]
  <2>2. q \in Request
    BY AnyStep DEF FirstSteps, NewRequest, Request
  <2>3. Knows(q)
    BY DEF NewRequest, Knows, CategorySteps, NameSteps, MetricSteps, FormatSteps
  <2> QED BY <2>1, <2>2, <2>3, AskingKept
<1>3. CASE SearchTag(r)
  BY <1>3, CheckingKept DEF SearchTag, Follows
<1>4. CASE StartTagging(r)
  <2>1. PICK a \in Assets, put \in SUBSET (Tags \X Values), drop \in SUBSET (Tags \X Values) :
          Set(r, [NewRequest EXCEPT !.at = "reading", !.asset = a, !.put = put, !.drop = drop])
    <3>1. defined \X Values \subseteq Tags \X Values
      BY <1>0 DEF CatalogueTypeOK
    <3> QED BY <1>4, <3>1 DEF StartTagging
  <2> DEFINE q == [NewRequest EXCEPT !.at = "reading", !.asset = a, !.put = put, !.drop = drop]
  <2>2. q \in Request
    BY AnyStep DEF FirstSteps, NewRequest, Request
  <2>3. Knows(q)
    BY DEF NewRequest, Knows, CategorySteps, NameSteps, MetricSteps, FormatSteps
  <2> QED BY <2>1, <2>2, <2>3, AskingKept
<1>5. CASE ReadTags(r)
  <2> DEFINE T == (tags[req[r].asset] \union req[r].put) \ req[r].drop
  <2>1. req[r].at = "reading" /\ Set(r, [req[r] EXCEPT !.at = "tagging", !.tags = T])
    BY <1>5 DEF ReadTags
  <2>2. req[r].asset \in Assets
    BY <1>0, <2>1 DEF Knows
  <2>3. T \in SUBSET (Tags \X Values)
    BY <1>0, <2>2 DEF CatalogueTypeOK, Request
  <2> HIDE DEF T
  <2> DEFINE q == [req[r] EXCEPT !.at = "tagging", !.tags = T]
  <2>4. "tagging" \in Steps
    BY DEF Steps
  <2>5. q \in Request
    BY ZenonT(40), <1>0, <2>3, <2>4 DEF Request
  <2>6. q.at = "tagging" /\ q.asset = req[r].asset
    BY <1>0 DEF Request
  <2> HIDE DEF q
  <2>7. Knows(q)
    BY <2>2, <2>6 DEF Knows, CategorySteps, NameSteps, MetricSteps, FormatSteps
  <2> QED BY <2>1, <2>5, <2>7, AskingKept DEF q
<1> QED
  BY <1>1, <1>2, <1>3, <1>4, <1>5 DEF TagStep

LEMMA FormatRequestsKeepTypes ==
  ASSUME CatalogueTypeInv, NEW r \in Requests, FormatStep(r)
  PROVE  AskingKeepsTypes
<1>0. CatalogueTypeOK
  BY DEF CatalogueTypeInv
<1>1. CASE AddFormat(r) \/ ChangeFormat(r) \/ WithdrawFormat(r) \/ UploadFile(r)
  BY <1>1, EndingKept DEF AddFormat, ChangeFormat, WithdrawFormat, UploadFile
<1>2. ASSUME NEW s \in {"comparing", "checking", "using", "uploading"}, NEW t \in Types, NEW S \in SUBSET Extensions,
             Set(r, [NewRequest EXCEPT !.at = s, !.type = t, !.extensions = S])
      PROVE  AskingKeepsTypes
  <2> DEFINE q == [NewRequest EXCEPT !.at = s, !.type = t, !.extensions = S]
  <2>1. q \in Request
    BY AnyStep DEF FirstSteps, NewRequest, Request
  <2>2. Knows(q)
    BY DEF NewRequest, Knows, CategorySteps, NameSteps, MetricSteps, FormatSteps
  <2> QED BY <1>2, <2>1, <2>2, AskingKept
<1>3. CASE StartCreateFormat(r) \/ StartUpdateFormat(r)
  BY <1>3, <1>2 DEF StartCreateFormat, StartUpdateFormat
<1>4. CASE StartDeleteFormat(r)
  <2>1. PICK t \in Types : Set(r, [NewRequest EXCEPT !.at = "using", !.type = t])
    BY <1>4 DEF StartDeleteFormat
  <2> DEFINE q == [NewRequest EXCEPT !.at = "using", !.type = t]
  <2>2. q \in Request
    BY AnyStep DEF FirstSteps, NewRequest, Request
  <2>3. Knows(q)
    BY DEF NewRequest, Knows, CategorySteps, NameSteps, MetricSteps, FormatSteps
  <2> QED BY <2>1, <2>2, <2>3, AskingKept
<1>5. CASE StartUpload(r)
  <2>1. PICK f \in formats, e \in Extensions :
          Set(r, [NewRequest EXCEPT !.at = "uploading", !.type = f.type, !.extensions = {e}])
    BY <1>5 DEF StartUpload
  <2>2. f.type \in Types /\ {e} \in SUBSET Extensions
    BY <1>0 DEF CatalogueTypeOK, Format
  <2> QED BY <2>1, <2>2, <1>2
<1>6. CASE CompareFormats(r)
  BY <1>6, CheckingKept DEF CompareFormats, Follows, FormatSteps
<1>7. CASE CheckFormat(r)
  BY <1>7, CheckingKept DEF CheckFormat, Follows, FormatSteps
<1>8. CASE SearchFiles(r)
  BY <1>8, CheckingKept DEF SearchFiles, Follows, FormatSteps
<1> QED
  BY <1>1, <1>3, <1>4, <1>5, <1>6, <1>7, <1>8 DEF FormatStep

(* Only the variables of its own kind change with a step.                  *)
LEMMA MetricsKeepTypes ==
  ASSUME CatalogueTypeInv, NEW r \in Requests, MetricStep(r)
  PROVE  /\ category' \in [Categories -> Names \union {Nothing}]
         /\ metric' \in [Metrics -> Names \union {Nothing}]
         /\ deleted' \subseteq Metrics
         /\ values' \in [Models -> SUBSET Metrics]
         /\ UNCHANGED <<occurring, labels, types>>
<1>0. /\ Knows(req[r]) /\ req[r] \in Request /\ deleted \subseteq Metrics
      /\ category \in [Categories -> Names \union {Nothing}] /\ metric \in [Metrics -> Names \union {Nothing}]
      /\ values \in [Models -> SUBSET Metrics]
  BY DEF CatalogueTypeInv, CatalogueTypeOK, RequestsKnow
<1> USE DEF MetricStep, metrics
<1>1. UNCHANGED <<occurring, labels, types>>
  BY DEF CreateCategory, StartDeleteCategory, CountMetrics, DropCategory, StartRename, RenameCategory,
     MoveMetrics, StartMetric, EnsureCategory, DefineMetric, StartDeleteMetric, RemoveMetric, ClearValues,
     StartSave, LookUpMetrics, SaveValues, Start, Checked
<1>2. CASE CreateCategory(r)
  BY <1>0, <1>1, <1>2 DEF CreateCategory
<1>3. CASE DropCategory(r)
  BY <1>0, <1>1, <1>3 DEF DropCategory
<1>4. CASE RenameCategory(r)
  <2>1. req[r].name \in Names
    BY <1>0, <1>4 DEF RenameCategory, Knows, NameSteps
  <2> QED BY <1>0, <1>1, <1>4, <2>1 DEF RenameCategory
<1>5. CASE MoveMetrics(r)
  <2>1. req[r].name \in Names
    BY <1>0, <1>5 DEF MoveMetrics, Knows, NameSteps
  <2> QED BY <1>0, <1>1, <1>5, <2>1 DEF MoveMetrics
<1>6. CASE DefineMetric(r)
  <2>1. req[r].name \in Names
    BY <1>0, <1>6 DEF DefineMetric, Knows, NameSteps
  <2> QED BY <1>0, <1>1, <1>6, <2>1 DEF DefineMetric
<1>7. CASE RemoveMetric(r)
  <2>1. req[r].metric \in Metrics
    BY <1>0, <1>7 DEF RemoveMetric, Knows, MetricSteps
  <2> QED BY <1>0, <1>1, <1>7, <2>1 DEF RemoveMetric
<1>8. CASE ClearValues(r)
  BY <1>0, <1>1, <1>8 DEF ClearValues
<1>9. CASE SaveValues(r)
  <2>1. req[r].values \in SUBSET Metrics
    BY <1>0 DEF Request
  <2> QED BY <1>0, <1>1, <1>9, <2>1 DEF SaveValues
<1>10. CASE \/ StartDeleteCategory(r) \/ CountMetrics(r) \/ StartRename(r) \/ StartMetric(r) \/ EnsureCategory(r)
            \/ StartDeleteMetric(r) \/ StartSave(r) \/ LookUpMetrics(r)
  <2>1. UNCHANGED metrics
    BY <1>10 DEF StartDeleteCategory, CountMetrics, StartRename, StartMetric, EnsureCategory,
       StartDeleteMetric, StartSave, LookUpMetrics, Start, Checked
  <2> QED BY <1>0, <1>1, <2>1
<1> QED
  BY <1>2, <1>3, <1>4, <1>5, <1>6, <1>7, <1>8, <1>9, <1>10

LEMMA LabelsKeepTypes ==
  ASSUME CatalogueTypeInv, NEW r \in Requests, TagStep(r)
  PROVE  /\ defined' \subseteq Tags
         /\ tags' \in [Assets -> SUBSET (Tags \X Values)]
         /\ UNCHANGED <<occurring, metrics, types>>
<1>0. req[r] \in Request /\ defined \subseteq Tags /\ tags \in [Assets -> SUBSET (Tags \X Values)]
  BY DEF CatalogueTypeInv, CatalogueTypeOK
<1> USE DEF TagStep, labels
<1>1. UNCHANGED <<occurring, metrics, types>>
  BY DEF CreateTag, StartDeleteTag, SearchTag, DropTag, StartTagging, ReadTags, WriteTags, Start, Checked
<1>2. CASE CreateTag(r) \/ DropTag(r)
  BY <1>0, <1>1, <1>2 DEF CreateTag, DropTag
<1>3. CASE WriteTags(r)
  <2>1. req[r].tags \in SUBSET (Tags \X Values)
    BY <1>0 DEF Request
  <2> QED BY <1>0, <1>1, <1>3, <2>1 DEF WriteTags
<1>4. CASE StartDeleteTag(r) \/ SearchTag(r) \/ StartTagging(r) \/ ReadTags(r)
  <2>1. UNCHANGED labels
    BY <1>4 DEF StartDeleteTag, SearchTag, StartTagging, ReadTags, Start, Checked
  <2> QED BY <1>0, <1>1, <2>1
<1> QED
  BY <1>2, <1>3, <1>4

LEMMA FormatsKeepTypes ==
  ASSUME CatalogueTypeInv, NEW r \in Requests, FormatStep(r)
  PROVE  /\ formats' \subseteq Format
         /\ files' \subseteq Types \X Extensions
         /\ UNCHANGED <<occurring, metrics, labels>>
<1>0. Knows(req[r]) /\ req[r] \in Request /\ formats \subseteq Format /\ files \subseteq Types \X Extensions
  BY DEF CatalogueTypeInv, CatalogueTypeOK, RequestsKnow
<1>1. req[r].extensions \in SUBSET Extensions
  BY <1>0 DEF Request
<1>2. req[r].at \in FormatSteps => req[r].type \in Types
  BY <1>0 DEF Knows
<1> USE DEF FormatStep, types
<1>3. UNCHANGED <<occurring, metrics, labels>>
  BY DEF StartCreateFormat, CompareFormats, AddFormat, StartUpdateFormat, CheckFormat, ChangeFormat,
     StartDeleteFormat, SearchFiles, WithdrawFormat, StartUpload, UploadFile, Start, Checked
<1>4. CASE AddFormat(r)
  <2>1. [type |-> req[r].type, extensions |-> req[r].extensions, id |-> r] \in Format
    BY <1>1, <1>2, <1>4 DEF AddFormat, FormatSteps, Format
  <2> QED BY <1>0, <1>3, <1>4, <2>1 DEF AddFormat
<1>5. CASE ChangeFormat(r)
  <2>1. \A f \in formats : [f EXCEPT !.extensions = req[r].extensions] \in Format
    BY <1>0, <1>1 DEF Format
  <2> QED BY <1>0, <1>3, <1>5, <2>1 DEF ChangeFormat, RowsOf
<1>6. CASE WithdrawFormat(r)
  BY <1>0, <1>3, <1>6 DEF WithdrawFormat
<1>7. CASE UploadFile(r)
  BY <1>0, <1>1, <1>2, <1>3, <1>7 DEF UploadFile, FormatSteps
<1>8. CASE \/ StartCreateFormat(r) \/ CompareFormats(r) \/ StartUpdateFormat(r) \/ CheckFormat(r)
           \/ StartDeleteFormat(r) \/ SearchFiles(r) \/ StartUpload(r)
  <2>1. UNCHANGED types
    BY <1>8 DEF StartCreateFormat, CompareFormats, StartUpdateFormat, CheckFormat,
       StartDeleteFormat, SearchFiles, StartUpload, Start, Checked
  <2> QED BY <1>0, <1>3, <2>1
<1> QED
  BY <1>4, <1>5, <1>6, <1>7, <1>8

LEMMA CatalogueTypeInvariant == CatalogueSpec => []CatalogueTypeInv
<1>1. CatalogueInit => CatalogueTypeInv
  <2> SUFFICES ASSUME CatalogueInit PROVE CatalogueTypeInv
    OBVIOUS
  <2>1. req \in [Requests -> Request] /\ RequestsKnow
    BY NoRequestYet DEF CatalogueInit, RequestsKnow
  <2>2. /\ category \in [Categories -> Names \union {Nothing}]
        /\ metric \in [Metrics -> Names \union {Nothing}]
        /\ values \in [Models -> SUBSET Metrics]
    <3>1. CASE "metrics" \in occurring
      BY <3>1 DEF CatalogueInit
    <3>2. CASE "metrics" \notin occurring
      BY <3>2 DEF CatalogueInit
    <3> QED BY <3>1, <3>2
  <2>3. defined \subseteq Tags /\ tags \in [Assets -> SUBSET (Tags \X Values)]
    <3>1. CASE "tags" \in occurring
      <4>1. defined \in SUBSET Tags /\ tags \in [Assets -> SUBSET (defined \X Values)]
        BY <3>1 DEF CatalogueInit
      <4> QED BY <4>1
    <3>2. CASE "tags" \notin occurring
      BY <3>2 DEF CatalogueInit
    <3> QED BY <3>1, <3>2
  <2> QED
    BY <2>1, <2>2, <2>3 DEF CatalogueInit, CatalogueTypeInv, CatalogueTypeOK
<1>2. CatalogueTypeInv /\ [CatalogueNext]_catalogue => CatalogueTypeInv'
  <2> SUFFICES ASSUME CatalogueTypeInv, [CatalogueNext]_catalogue PROVE CatalogueTypeInv'
    OBVIOUS
  <2>0. CatalogueTypeOK /\ RequestsKnow
    BY DEF CatalogueTypeInv
  <2>1. CASE UNCHANGED catalogue
    <3>1. CatalogueTypeOK'
      BY <2>0, <2>1 DEF CatalogueTypeOK, catalogue, metrics, labels, types
    <3>2. RequestsKnow'
      BY <2>0, <2>1 DEF RequestsKnow, Knows, catalogue
    <3> QED BY <3>1, <3>2 DEF CatalogueTypeInv
  <2>2. ASSUME NEW r \in Requests, MetricStep(r) PROVE CatalogueTypeInv'
    BY <2>0, <2>2, MetricRequestsKeepTypes, MetricsKeepTypes
    DEF CatalogueTypeInv, CatalogueTypeOK, AskingKeepsTypes, labels, types
  <2>3. ASSUME NEW r \in Requests, TagStep(r) PROVE CatalogueTypeInv'
    BY <2>0, <2>3, TagRequestsKeepTypes, LabelsKeepTypes
    DEF CatalogueTypeInv, CatalogueTypeOK, AskingKeepsTypes, metrics, types
  <2>4. ASSUME NEW r \in Requests, FormatStep(r) PROVE CatalogueTypeInv'
    BY <2>0, <2>4, FormatRequestsKeepTypes, FormatsKeepTypes
    DEF CatalogueTypeInv, CatalogueTypeOK, AskingKeepsTypes, metrics, labels
  <2>5. ASSUME NEW r \in Requests, Crash(r) PROVE CatalogueTypeInv'
    BY <2>0, <2>5, EndingKept
    DEF Crash, CatalogueTypeInv, CatalogueTypeOK, AskingKeepsTypes, metrics, labels, types
  <2> QED BY <2>1, <2>2, <2>3, <2>4, <2>5 DEF CatalogueNext
<1> QED
  BY <1>1, <1>2, PTL DEF CatalogueSpec

(* Categories, metrics, tags, formats and the requests on them keep their  *)
(* types; in particular a metric is never given something else than the    *)
(* name of a category.                                                     *)
THEOREM CatalogueTypeCorrect == CatalogueSpec => []CatalogueTypeOK
<1>1. CatalogueTypeInv => CatalogueTypeOK
  BY DEF CatalogueTypeInv
<1> QED
  BY <1>1, CatalogueTypeInvariant, PTL

-----------------------------------------------------------------------------
(* Requests that come one after the other.  Then what a request has found  *)
(* still holds when it writes.                                             *)
Alone == "together" \notin occurring
OneIsBusy == \A r, s \in Requests : Busy(r) /\ Busy(s) => r = s
OneIsBusyInv == Alone => OneIsBusy

CatalogueStep(r) == MetricStep(r) \/ TagStep(r) \/ FormatStep(r) \/ Crash(r)

LEMMA CircumstancesStay ==
  ASSUME NEW r \in Requests, CatalogueStep(r)
  PROVE  UNCHANGED occurring
BY DEF CatalogueStep, Crash, MetricStep, TagStep, FormatStep, Start, Checked,
   CreateCategory, StartDeleteCategory, CountMetrics, DropCategory, StartRename, RenameCategory,
   MoveMetrics, StartMetric, EnsureCategory, DefineMetric, StartDeleteMetric, RemoveMetric, ClearValues,
   StartSave, LookUpMetrics, SaveValues, CreateTag, StartDeleteTag, SearchTag, DropTag, StartTagging,
   ReadTags, WriteTags, StartCreateFormat, CompareFormats, AddFormat, StartUpdateFormat, CheckFormat,
   ChangeFormat, StartDeleteFormat, SearchFiles, WithdrawFormat, StartUpload, UploadFile

(* A step changes the record of its request alone, nothing before it is    *)
(* busy but that request, and what ends or begins with it is known.        *)
Acts(r) ==
  /\ \A s \in Requests \ {r} : ~Busy(s) /\ req'[s] = req[s]
  /\ UNCHANGED occurring

LEMMA SetFrame ==
  ASSUME CatalogueTypeOK, NEW r \in Requests, NEW q, Set(r, q)
  PROVE  req'[r] = q /\ \A s \in Requests \ {r} : req'[s] = req[s]
BY DEF CatalogueTypeOK, Set

LEMMA OthersWait ==
  ASSUME CatalogueTypeOK, Alone, OneIsBusy, NEW r \in Requests, CatalogueStep(r)
  PROVE  Acts(r)
<1>1. Busy(r) \/ AllIdle
  <2>1. CASE MetricStep(r)
    BY <2>1 DEF MetricStep, Alone, Busy, Start, Idle, CreateCategory, StartDeleteCategory, CountMetrics, DropCategory,
       StartRename, RenameCategory, MoveMetrics, StartMetric, EnsureCategory, DefineMetric, StartDeleteMetric,
       RemoveMetric, ClearValues, StartSave, LookUpMetrics, SaveValues
  <2>2. CASE TagStep(r)
    BY <2>2 DEF TagStep, Alone, Busy, Start, Idle, CreateTag, StartDeleteTag, SearchTag, DropTag, StartTagging,
       ReadTags, WriteTags
  <2>3. CASE FormatStep(r)
    BY <2>3 DEF FormatStep, Alone, Busy, Start, Idle, StartCreateFormat, CompareFormats, AddFormat,
       StartUpdateFormat, CheckFormat, ChangeFormat, StartDeleteFormat, SearchFiles, WithdrawFormat,
       StartUpload, UploadFile
  <2>4. CASE Crash(r)
    BY <2>4 DEF Crash
  <2> QED BY <2>1, <2>2, <2>3, <2>4 DEF CatalogueStep
<1>2. \A s \in Requests \ {r} : ~Busy(s)
  BY <1>1 DEF OneIsBusy, AllIdle
<1>3. UNCHANGED occurring
  BY CircumstancesStay
<1>4. \E q : Set(r, q)
  <2> USE DEF At, End, Checked
  <2>1. CASE MetricStep(r)
    BY <2>1 DEF MetricStep, Start, CreateCategory, StartDeleteCategory, CountMetrics, DropCategory,
       StartRename, RenameCategory, MoveMetrics, StartMetric, EnsureCategory, DefineMetric, StartDeleteMetric,
       RemoveMetric, ClearValues, StartSave, LookUpMetrics, SaveValues
  <2>2. CASE TagStep(r)
    BY <2>2 DEF TagStep, Start, CreateTag, StartDeleteTag, SearchTag, DropTag, StartTagging, ReadTags, WriteTags
  <2>3. CASE FormatStep(r)
    BY <2>3 DEF FormatStep, Start, StartCreateFormat, CompareFormats, AddFormat, StartUpdateFormat, CheckFormat,
       ChangeFormat, StartDeleteFormat, SearchFiles, WithdrawFormat, StartUpload, UploadFile
  <2>4. CASE Crash(r)
    BY <2>4 DEF Crash
  <2> QED BY <2>1, <2>2, <2>3, <2>4 DEF CatalogueStep
<1> QED
  BY <1>2, <1>3, <1>4, SetFrame DEF Acts

LEMMA OneIsBusyInvariant == CatalogueSpec => []OneIsBusyInv
<1>1. CatalogueInit => OneIsBusyInv
  BY DEF CatalogueInit, NewRequest, Busy, OneIsBusy, OneIsBusyInv
<1>2. CatalogueTypeOK /\ OneIsBusyInv /\ [CatalogueNext]_catalogue => OneIsBusyInv'
  <2> SUFFICES ASSUME CatalogueTypeOK, OneIsBusyInv, [CatalogueNext]_catalogue, Alone' PROVE OneIsBusy'
    BY DEF OneIsBusyInv
  <2>1. CASE UNCHANGED catalogue
    BY <2>1 DEF catalogue, OneIsBusyInv, Alone, OneIsBusy, Busy
  <2>2. ASSUME NEW r \in Requests, CatalogueStep(r), Alone PROVE OneIsBusy'
    <3>1. Acts(r)
      BY <2>2, OthersWait DEF OneIsBusyInv
    <3> QED BY <3>1 DEF Acts, OneIsBusy, Busy
  <2>3. ASSUME NEW r \in Requests, CatalogueStep(r) PROVE Alone
    BY <2>3, CircumstancesStay DEF Alone
  <2> QED BY <2>1, <2>2, <2>3 DEF CatalogueNext, CatalogueStep
<1> QED
  BY <1>1, <1>2, CatalogueTypeCorrect, PTL DEF CatalogueSpec

(* Each step belongs to requests of one kind.                              *)
MetricKind == {"counting", "dropping", "renaming", "moving", "ensuring", "defining", "removing",
               "clearing", "looking", "saving"}
TagKind == {"searching", "untagging", "reading", "tagging"}

LEMMA KindsStay ==
  ASSUME CatalogueTypeOK, NEW r \in Requests
  PROVE  /\ MetricStep(r) => req[r].at \in MetricKind \union {"idle"} /\ req'[r].at \in MetricKind \union {"done"}
         /\ TagStep(r) => req[r].at \in TagKind \union {"idle"} /\ req'[r].at \in TagKind \union {"done"}
         /\ FormatStep(r) => req[r].at \in FormatSteps \union {"idle"} /\ req'[r].at \in FormatSteps \union {"done"}
<1> USE DEF MetricKind, TagKind, FormatSteps
<1>0. req[r] \in Request
  BY DEF CatalogueTypeOK
<1>1. ASSUME NEW s, At(r, s) PROVE req'[r].at = s
  <2>1. req'[r] = [req[r] EXCEPT !.at = s]
    BY <1>1, SetFrame DEF At
  <2> QED BY <1>0, <2>1 DEF Request
<1>2. End(r) => req'[r].at = "done"
  BY SetFrame DEF End, NewRequest
<1>3. ASSUME NEW q, Set(r, q) PROVE req'[r] = q
  BY <1>3, SetFrame
<1>4. ASSUME NEW s, NEW ok, Checked(r, ok, s) PROVE req'[r].at \in {s, "done"}
  BY <1>1, <1>2, <1>4 DEF Checked
<1>5. ASSUME MetricStep(r)
      PROVE  req[r].at \in MetricKind \union {"idle"} /\ req'[r].at \in MetricKind \union {"done"}
  <2>1. CASE CreateCategory(r) \/ DropCategory(r) \/ MoveMetrics(r) \/ DefineMetric(r) \/ ClearValues(r) \/ SaveValues(r)
    BY <2>1, <1>2 DEF CreateCategory, Idle, DropCategory, MoveMetrics, DefineMetric, ClearValues, SaveValues
  <2>2. CASE CountMetrics(r) \/ EnsureCategory(r) \/ LookUpMetrics(r)
    BY <2>2, <1>4 DEF CountMetrics, EnsureCategory, LookUpMetrics
  <2>3. CASE RenameCategory(r) \/ RemoveMetric(r)
    BY <2>3, <1>1, <1>2 DEF RenameCategory, RemoveMetric
  <2>4. CASE StartDeleteCategory(r)
    <3>1. PICK c \in Categories : req'[r] = [NewRequest EXCEPT !.at = "counting", !.category = c, !.old = category[c]]
      BY <2>4, <1>3 DEF StartDeleteCategory
    <3> QED BY <2>4, <3>1 DEF StartDeleteCategory, Start, Idle, NewRequest
  <2>5. CASE StartRename(r)
    <3>1. PICK c \in Categories, n \in Names :
            req'[r] = [NewRequest EXCEPT !.at = "renaming", !.category = c, !.old = category[c], !.name = n]
      BY <2>5, <1>3 DEF StartRename
    <3> QED BY <2>5, <3>1 DEF StartRename, Start, Idle, NewRequest
  <2>6. CASE StartMetric(r)
    <3>1. PICK m \in Metrics, n \in Names : req'[r] = [NewRequest EXCEPT !.at = "ensuring", !.metric = m, !.name = n]
      BY <2>6, <1>3 DEF StartMetric
    <3> QED BY <2>6, <3>1 DEF StartMetric, Start, Idle, NewRequest
  <2>7. CASE StartDeleteMetric(r)
    <3>1. PICK m \in Metrics : req'[r] = [NewRequest EXCEPT !.at = "removing", !.metric = m]
      BY <2>7, <1>3 DEF StartDeleteMetric
    <3> QED BY <2>7, <3>1 DEF StartDeleteMetric, Start, Idle, NewRequest
  <2>8. CASE StartSave(r)
    <3>1. PICK x \in Models, S \in SUBSET Metrics :
            req'[r] = [NewRequest EXCEPT !.at = "looking", !.model = x, !.values = S]
      BY <2>8, <1>3 DEF StartSave
    <3> QED BY <2>8, <3>1 DEF StartSave, Start, Idle, NewRequest
  <2> QED BY <1>5, <2>1, <2>2, <2>3, <2>4, <2>5, <2>6, <2>7, <2>8 DEF MetricStep
<1>6. ASSUME TagStep(r)
      PROVE  req[r].at \in TagKind \union {"idle"} /\ req'[r].at \in TagKind \union {"done"}
  <2>1. CASE CreateTag(r) \/ DropTag(r) \/ WriteTags(r)
    BY <2>1, <1>2 DEF CreateTag, Idle, DropTag, WriteTags
  <2>2. CASE SearchTag(r)
    BY <2>2, <1>4 DEF SearchTag
  <2>3. CASE StartDeleteTag(r)
    <3>1. PICK t \in defined : req'[r] = [NewRequest EXCEPT !.at = "searching", !.tag = t]
      BY <2>3, <1>3 DEF StartDeleteTag
    <3> QED BY <2>3, <3>1 DEF StartDeleteTag, Start, Idle, NewRequest
  <2>4. CASE StartTagging(r)
    <3>1. PICK a \in Assets, put \in SUBSET (defined \X Values), drop \in SUBSET (Tags \X Values) :
            req'[r] = [NewRequest EXCEPT !.at = "reading", !.asset = a, !.put = put, !.drop = drop]
      BY <2>4, <1>3 DEF StartTagging
    <3> QED BY <2>4, <3>1 DEF StartTagging, Start, Idle, NewRequest
  <2>5. CASE ReadTags(r)
    <3> DEFINE T == (tags[req[r].asset] \union req[r].put) \ req[r].drop
    <3>1. req[r].at = "reading" /\ req'[r] = [req[r] EXCEPT !.at = "tagging", !.tags = T]
      BY <2>5, <1>3 DEF ReadTags
    <3> HIDE DEF T
    <3>2. [req[r] EXCEPT !.at = "tagging", !.tags = T].at = "tagging"
      BY <1>0 DEF Request
    <3> QED BY <3>1, <3>2
  <2> QED BY <1>6, <2>1, <2>2, <2>3, <2>4, <2>5 DEF TagStep
<1>7. ASSUME FormatStep(r)
      PROVE  req[r].at \in FormatSteps \union {"idle"} /\ req'[r].at \in FormatSteps \union {"done"}
  <2>1. CASE AddFormat(r) \/ ChangeFormat(r) \/ WithdrawFormat(r) \/ UploadFile(r)
    BY <2>1, <1>2 DEF AddFormat, ChangeFormat, WithdrawFormat, UploadFile
  <2>2. CASE CompareFormats(r) \/ CheckFormat(r) \/ SearchFiles(r)
    BY <2>2, <1>4 DEF CompareFormats, CheckFormat, SearchFiles
  <2>3. CASE StartCreateFormat(r) \/ StartUpdateFormat(r)
    <3>1. PICK s \in {"comparing", "checking"}, t \in Types, S \in SUBSET Extensions :
            req'[r] = [NewRequest EXCEPT !.at = s, !.type = t, !.extensions = S]
      BY <2>3, <1>3 DEF StartCreateFormat, StartUpdateFormat
    <3> QED BY <2>3, <3>1 DEF StartCreateFormat, StartUpdateFormat, Start, Idle, NewRequest
  <2>4. CASE StartDeleteFormat(r)
    <3>1. PICK t \in Types : req'[r] = [NewRequest EXCEPT !.at = "using", !.type = t]
      BY <2>4, <1>3 DEF StartDeleteFormat
    <3> QED BY <2>4, <3>1 DEF StartDeleteFormat, Start, Idle, NewRequest
  <2>5. CASE StartUpload(r)
    <3>1. PICK f \in formats, e \in Extensions :
            req'[r] = [NewRequest EXCEPT !.at = "uploading", !.type = f.type, !.extensions = {e}]
      BY <2>5, <1>3 DEF StartUpload
    <3> QED BY <2>5, <3>1 DEF StartUpload, Start, Idle, NewRequest
  <2> QED BY <1>7, <2>1, <2>2, <2>3, <2>4, <2>5 DEF FormatStep
<1> QED BY <1>5, <1>6, <1>7

-----------------------------------------------------------------------------
(* Metrics and their categories.  Between its two writes a rename leaves   *)
(* metrics with the old name, and a deletion leaves values of the metric.  *)
MetricFacts(q) ==
  /\ q.at \in {"counting", "dropping", "renaming"} => category[q.category] = q.old
  /\ q.at = "dropping" => \A m \in Metrics : metric[m] # q.old
  /\ q.at = "renaming" => q.old # q.name
  /\ q.at = "moving" => category[q.category] = q.name
  /\ q.at = "defining" => NameTaken(q.name)
  /\ q.at = "clearing" => metric[q.metric] = Nothing
  /\ q.at = "saving" => \A m \in q.values : metric[m] # Nothing

Moving(m, q) == q.at = "moving" /\ metric[m] = q.old
Clearing(m, q) == q.at = "clearing" /\ m = q.metric

DeletedStay == \A m \in deleted : metric[m] = Nothing
NamedOrMoving(q) == \A m \in Metrics : metric[m] # Nothing => NameTaken(metric[m]) \/ Moving(m, q)
ThereOrClearing(q) == \A x \in Models : \A m \in values[x] : metric[m] # Nothing \/ Clearing(m, q)

MetricInv ==
  /\ DeletedStay
  /\ \A m \in Metrics : metric[m] # Nothing => NameTaken(metric[m]) \/ \E r \in Requests : Moving(m, req[r])
  /\ \A x \in Models : \A m \in values[x] : metric[m] # Nothing \/ \E r \in Requests : Clearing(m, req[r])
  /\ \A r \in Requests : MetricFacts(req[r])

Whole == Alone /\ "crash" \notin occurring
MetricsInv == Whole => MetricInv

(* Seen from the one request that acts.                                    *)
MetricView(q) == DeletedStay /\ NamedOrMoving(q) /\ ThereOrClearing(q) /\ MetricFacts(q)

LEMMA MetricsSeen ==
  ASSUME NEW r \in Requests, Acts(r), MetricInv
  PROVE  MetricView(req[r])
BY DEF Acts, Busy, MetricInv, MetricView, NamedOrMoving, ThereOrClearing, Moving, Clearing

LEMMA MetricsShown ==
  ASSUME NEW r \in Requests, Acts(r), NEW q, q = req'[r], MetricView(q)'
  PROVE  MetricInv'
<1>1. \A s \in Requests \ {r} : MetricFacts(req[s])'
  BY DEF Acts, Busy, MetricFacts
<1>2. MetricFacts(req[r])'
  BY DEF MetricView
<1>3. \A m \in Metrics : (metric[m] # Nothing => NameTaken(metric[m]) \/ \E s \in Requests : Moving(m, req[s]))'
  BY DEF MetricView, NamedOrMoving, Moving
<1>4. \A x \in Models : \A m \in values'[x] : (metric[m] # Nothing \/ \E s \in Requests : Clearing(m, req[s]))'
  BY DEF MetricView, ThereOrClearing, Clearing
<1> QED
  BY <1>1, <1>2, <1>3, <1>4 DEF MetricInv, MetricView

(* Metrics, categories and values do not change.                           *)
LEMMA MetricsRest ==
  ASSUME NEW p, NEW q, MetricView(p), UNCHANGED metrics, MetricFacts(q),
         p.at \notin {"moving", "clearing"}
  PROVE  MetricView(q)'
<1>1. /\ category' = category /\ metric' = metric /\ deleted' = deleted /\ values' = values
  BY DEF metrics
<1>2. NamedOrMoving(q)' /\ ThereOrClearing(q)' /\ DeletedStay'
  BY <1>1 DEF MetricView, NamedOrMoving, ThereOrClearing, DeletedStay, Moving, Clearing, NameTaken
<1>3. MetricFacts(q)'
  BY <1>1 DEF MetricFacts, NameTaken
<1> QED BY <1>2, <1>3 DEF MetricView

LEMMA Moved ==
  ASSUME NEW p \in Request, NEW s, NEW q, q = [p EXCEPT !.at = s]
  PROVE  /\ q.at = s /\ q.category = p.category /\ q.old = p.old /\ q.name = p.name
         /\ q.metric = p.metric /\ q.values = p.values /\ q.tag = p.tag /\ q.tags = p.tags
         /\ q.type = p.type /\ q.extensions = p.extensions
BY DEF Request

LEMMA MetricStepKeepsInv ==
  ASSUME CatalogueTypeInv, MetricInv, NEW r \in Requests, MetricStep(r), Acts(r)
  PROVE  MetricInv'
<1> PICK p : p = req[r]
  OBVIOUS
<1> PICK q : q = req'[r]
  OBVIOUS
<1>0. /\ Knows(p) /\ p \in Request /\ MetricView(p) /\ CatalogueTypeOK
      /\ category \in [Categories -> Names \union {Nothing}] /\ metric \in [Metrics -> Names \union {Nothing}]
      /\ values \in [Models -> SUBSET Metrics] /\ deleted \subseteq Metrics /\ req \in [Requests -> Request]
  BY MetricsSeen DEF CatalogueTypeInv, CatalogueTypeOK, RequestsKnow
<1>n. Nothing \notin Names
  BY NothingAssumption
<1>1. SUFFICES MetricView(q)'
  BY MetricsShown
<1>end. End(r) => q.at = "done"
  BY <1>0, SetFrame DEF End, NewRequest
<1>at. ASSUME NEW s, At(r, s)
       PROVE  /\ q.at = s /\ q.category = p.category /\ q.old = p.old /\ q.name = p.name
              /\ q.metric = p.metric /\ q.values = p.values
  <2>1. q = [p EXCEPT !.at = s]
    BY <1>0, <1>at, SetFrame DEF At
  <2> QED BY <1>0, <2>1, Moved
<1>done. q.at \in {"done", "looking", "removing", "ensuring"} => MetricFacts(q) /\ MetricFacts(q)'
  BY DEF MetricFacts
<1>2. CASE CreateCategory(r)
  <2>1. q.at = "done" /\ p.at = "idle" /\ UNCHANGED <<metric, deleted, values>>
    BY <1>2, <1>end DEF CreateCategory, Idle
  <2>2. PICK c \in Categories, n \in Names \union {Nothing} :
          category[c] = Nothing /\ category' = [category EXCEPT ![c] = n]
    BY <1>2 DEF CreateCategory
  <2>3. \A x \in Names : NameTaken(x) => NameTaken(x)'
    BY <1>0, <1>n, <2>2 DEF NameTaken
  <2>4. \A m \in Metrics : metric[m] # Nothing => metric[m] \in Names
    BY <1>0
  <2>5. DeletedStay' /\ NamedOrMoving(q)' /\ ThereOrClearing(q)'
    BY <1>0, <2>1, <2>3, <2>4 DEF MetricView, DeletedStay, NamedOrMoving, ThereOrClearing, Moving, Clearing
  <2> QED BY <1>done, <2>1, <2>5 DEF MetricView
<1>3. CASE StartDeleteCategory(r)
  <2>1. PICK c \in Categories : q = [NewRequest EXCEPT !.at = "counting", !.category = c, !.old = category[c]]
    BY <1>3, <1>0, SetFrame DEF StartDeleteCategory
  <2>2. q.at = "counting" /\ q.category = c /\ q.old = category[c]
    BY <2>1 DEF NewRequest
  <2>3. MetricFacts(q)
    BY <2>2 DEF MetricFacts
  <2> QED BY <1>0, <1>3, <2>3, MetricsRest DEF StartDeleteCategory, Start, Idle
<1>4. CASE CountMetrics(r)
  <2>1. p.at = "counting" /\ UNCHANGED metrics
    BY <1>4 DEF CountMetrics, Checked
  <2>2. CASE End(r)
    BY <1>0, <2>1, <2>2, <1>end, <1>done, MetricsRest
  <2>3. CASE At(r, "dropping") /\ \A m \in Metrics : metric[m] # p.old
    <3>1. q.at = "dropping" /\ q.category = p.category /\ q.old = p.old
      BY <1>at, <2>3
    <3>2. MetricFacts(q)
      BY <1>0, <2>1, <2>3, <3>1 DEF MetricFacts, MetricView
    <3> QED BY <1>0, <2>1, <3>2, MetricsRest
  <2> QED BY <1>4, <2>2, <2>3 DEF CountMetrics, Checked
<1>5. CASE DropCategory(r)
  <2>1. /\ p.at = "dropping" /\ q.at = "done" /\ UNCHANGED <<metric, deleted, values>>
        /\ category' = [category EXCEPT ![p.category] = Nothing]
    BY <1>5, <1>end DEF DropCategory
  <2>2. category[p.category] = p.old /\ \A m \in Metrics : metric[m] # p.old
    BY <1>0, <2>1 DEF MetricView, MetricFacts
  <2>3. \A m \in Metrics : NameTaken(metric[m]) => NameTaken(metric[m])'
    BY <1>0, <2>1, <2>2 DEF NameTaken
  <2>4. DeletedStay'
    BY <1>0, <2>1 DEF MetricView, DeletedStay
  <2>5. NamedOrMoving(q)'
    <3>1. \A m \in Metrics : metric[m] # Nothing => NameTaken(metric[m])
      BY <1>0, <2>1 DEF MetricView, NamedOrMoving, Moving
    <3>2. \A m \in Metrics : metric'[m] # Nothing => NameTaken(metric[m])'
      BY <2>1, <2>3, <3>1
    <3> QED BY <3>2 DEF NamedOrMoving
  <2>6. ThereOrClearing(q)'
    BY <1>0, <2>1 DEF MetricView, ThereOrClearing, Clearing
  <2> QED BY <1>done, <2>1, <2>4, <2>5, <2>6 DEF MetricView
<1>6. CASE StartRename(r)
  <2>1. PICK c \in Categories, n \in Names :
          /\ category[c] # n
          /\ Set(r, [NewRequest EXCEPT !.at = "renaming", !.category = c, !.old = category[c], !.name = n])
    BY <1>6 DEF StartRename
  <2>9. q = [NewRequest EXCEPT !.at = "renaming", !.category = c, !.old = category[c], !.name = n]
    BY <1>0, <2>1, SetFrame
  <2>2. q.at = "renaming" /\ q.category = c /\ q.old = category[c] /\ q.name = n
    BY <2>9 DEF NewRequest
  <2>3. MetricFacts(q)
    BY <2>1, <2>2 DEF MetricFacts
  <2> QED BY <1>0, <1>6, <2>3, MetricsRest DEF StartRename, Start, Idle
<1>7. CASE RenameCategory(r)
  <2>1. p.at = "renaming" /\ UNCHANGED <<metric, deleted, values>>
    BY <1>7 DEF RenameCategory
  <2>2. CASE End(r) /\ UNCHANGED category
    BY <1>0, <2>1, <2>2, <1>end, <1>done, MetricsRest DEF metrics
  <2>3. CASE At(r, "moving") /\ category' = [category EXCEPT ![p.category] = p.name]
    <3>1. q.at = "moving" /\ q.category = p.category /\ q.old = p.old /\ q.name = p.name
      BY <1>at, <2>3
    <3>2. category[p.category] = p.old /\ p.category \in Categories /\ p.name \in Names
      BY <1>0, <2>1 DEF MetricView, MetricFacts, Knows, CategorySteps, NameSteps
    <3>3. \A m \in Metrics : NameTaken(metric[m]) /\ metric[m] # p.old => NameTaken(metric[m])'
      BY <1>0, <2>1, <2>3, <3>2 DEF NameTaken
    <3>4. DeletedStay' /\ NamedOrMoving(q)' /\ ThereOrClearing(q)'
      BY <1>0, <2>1, <3>1, <3>3 DEF MetricView, DeletedStay, NamedOrMoving, ThereOrClearing, Moving, Clearing
    <3>5. MetricFacts(q)'
      BY <1>0, <2>3, <3>1, <3>2 DEF MetricFacts
    <3> QED BY <3>4, <3>5 DEF MetricView
  <2> QED BY <1>7, <2>2, <2>3 DEF RenameCategory
<1>8. CASE MoveMetrics(r)
  <2>1. /\ p.at = "moving" /\ q.at = "done" /\ UNCHANGED <<category, deleted, values>>
        /\ metric' = [m \in Metrics |-> IF metric[m] = p.old THEN p.name ELSE metric[m]]
    BY <1>8, <1>end DEF MoveMetrics
  <2>2. category[p.category] = p.name /\ p.category \in Categories /\ p.name \in Names /\ p.old \in Names
    BY <1>0, <2>1 DEF MetricView, MetricFacts, Knows, CategorySteps, NameSteps
  <2>3. NamedOrMoving(q)'
    BY <1>0, <2>1, <2>2 DEF MetricView, NamedOrMoving, Moving, NameTaken
  <2>4. DeletedStay' /\ ThereOrClearing(q)'
    BY <1>0, <1>n, <2>1, <2>2 DEF MetricView, DeletedStay, ThereOrClearing, Clearing
  <2> QED BY <1>done, <2>1, <2>3, <2>4 DEF MetricView
<1>9. CASE StartMetric(r)
  <2>0. PICK m \in Metrics, n \in Names : q = [NewRequest EXCEPT !.at = "ensuring", !.metric = m, !.name = n]
    BY <1>9, <1>0, SetFrame DEF StartMetric
  <2>1. q.at = "ensuring"
    BY <2>0 DEF NewRequest
  <2> QED BY <1>0, <1>9, <2>1, <1>done, MetricsRest DEF StartMetric, Start, Idle
<1>10. CASE EnsureCategory(r)
  <2>1. p.at = "ensuring" /\ UNCHANGED metrics
    BY <1>10 DEF EnsureCategory, Checked
  <2>2. CASE End(r)
    BY <1>0, <2>1, <2>2, <1>end, <1>done, MetricsRest
  <2>3. CASE At(r, "defining") /\ NameTaken(p.name)
    <3>1. q.at = "defining" /\ q.name = p.name
      BY <1>at, <2>3
    <3>2. MetricFacts(q)
      BY <2>3, <3>1 DEF MetricFacts
    <3> QED BY <1>0, <2>1, <3>2, MetricsRest
  <2> QED BY <1>10, <2>2, <2>3 DEF EnsureCategory, Checked
<1>11. CASE DefineMetric(r)
  <2> PICK n \in Names \union {Nothing} : n = IF p.metric \in deleted THEN Nothing ELSE p.name
    BY <1>0, <1>11 DEF DefineMetric, Knows, NameSteps
  <2>1. /\ p.at = "defining" /\ q.at = "done" /\ UNCHANGED <<category, deleted, values>>
        /\ metric' = [metric EXCEPT ![p.metric] = n]
    BY <1>11, <1>end DEF DefineMetric
  <2>2. p.metric \in Metrics /\ NameTaken(p.name) /\ p.name \in Names
    BY <1>0, <2>1 DEF MetricView, MetricFacts, Knows, MetricSteps, NameSteps
  <2>3. NamedOrMoving(q)'
    BY <1>0, <2>1, <2>2 DEF MetricView, NamedOrMoving, Moving, NameTaken
  <2>4. DeletedStay' /\ ThereOrClearing(q)'
    BY <1>0, <1>n, <2>1, <2>2 DEF MetricView, DeletedStay, ThereOrClearing, Clearing
  <2> QED BY <1>done, <2>1, <2>3, <2>4 DEF MetricView
<1>12. CASE StartDeleteMetric(r)
  <2>0. PICK m \in Metrics : q = [NewRequest EXCEPT !.at = "removing", !.metric = m]
    BY <1>12, <1>0, SetFrame DEF StartDeleteMetric
  <2>1. q.at = "removing"
    BY <2>0 DEF NewRequest
  <2> QED BY <1>0, <1>12, <2>1, <1>done, MetricsRest DEF StartDeleteMetric, Start, Idle
<1>13. CASE RemoveMetric(r)
  <2>1. /\ p.at = "removing" /\ UNCHANGED <<category, values>>
        /\ metric' = [metric EXCEPT ![p.metric] = Nothing] /\ deleted' = deleted \union {p.metric}
    BY <1>13 DEF RemoveMetric
  <2>2. p.metric \in Metrics
    BY <1>0, <2>1 DEF Knows, MetricSteps
  <2>3. q.at = "clearing" /\ q.metric = p.metric
    BY <1>at, <1>13 DEF RemoveMetric
  <2>4. NamedOrMoving(q)'
    BY <1>0, <2>1, <2>2 DEF MetricView, NamedOrMoving, Moving, NameTaken
  <2>5. DeletedStay' /\ ThereOrClearing(q)'
    BY <1>0, <2>1, <2>2, <2>3 DEF MetricView, DeletedStay, ThereOrClearing, Clearing
  <2>6. MetricFacts(q)'
    BY <1>0, <2>1, <2>2, <2>3 DEF MetricFacts
  <2> QED BY <2>4, <2>5, <2>6 DEF MetricView
<1>14. CASE ClearValues(r)
  <2>1. /\ p.at = "clearing" /\ q.at = "done" /\ UNCHANGED <<category, metric, deleted>>
        /\ values' = [x \in Models |-> values[x] \ {p.metric}]
    BY <1>14, <1>end DEF ClearValues
  <2>2. DeletedStay' /\ NamedOrMoving(q)' /\ ThereOrClearing(q)'
    BY <1>0, <2>1 DEF MetricView, DeletedStay, NamedOrMoving, ThereOrClearing, Moving, Clearing, NameTaken
  <2> QED BY <1>done, <2>1, <2>2 DEF MetricView
<1>15. CASE StartSave(r)
  <2>0. PICK x \in Models, S \in SUBSET Metrics :
          q = [NewRequest EXCEPT !.at = "looking", !.model = x, !.values = S]
    BY <1>15, <1>0, SetFrame DEF StartSave
  <2>1. q.at = "looking"
    BY <2>0 DEF NewRequest
  <2> QED BY <1>0, <1>15, <2>1, <1>done, MetricsRest DEF StartSave, Start, Idle
<1>16. CASE LookUpMetrics(r)
  <2>1. p.at = "looking" /\ UNCHANGED metrics
    BY <1>16 DEF LookUpMetrics, Checked
  <2>2. CASE End(r)
    BY <1>0, <2>1, <2>2, <1>end, <1>done, MetricsRest
  <2>3. CASE At(r, "saving") /\ \A m \in p.values : metric[m] # Nothing
    <3>1. q.at = "saving" /\ q.values = p.values
      BY <1>at, <2>3
    <3>2. MetricFacts(q)
      BY <2>3, <3>1 DEF MetricFacts
    <3> QED BY <1>0, <2>1, <3>2, MetricsRest
  <2> QED BY <1>16, <2>2, <2>3 DEF LookUpMetrics, Checked
<1>17. CASE SaveValues(r)
  <2>1. /\ p.at = "saving" /\ q.at = "done" /\ UNCHANGED <<category, metric, deleted>>
        /\ values' = [values EXCEPT ![p.model] = p.values]
    BY <1>17, <1>end DEF SaveValues
  <2>2. \A m \in p.values : metric[m] # Nothing
    BY <1>0, <2>1 DEF MetricView, MetricFacts
  <2>3. ThereOrClearing(q)'
    BY <1>0, <2>1, <2>2 DEF MetricView, ThereOrClearing, Clearing
  <2>4. DeletedStay' /\ NamedOrMoving(q)'
    BY <1>0, <2>1 DEF MetricView, DeletedStay, NamedOrMoving, Moving, NameTaken
  <2> QED BY <1>done, <2>1, <2>3, <2>4 DEF MetricView
<1> QED
  BY <1>2, <1>3, <1>4, <1>5, <1>6, <1>7, <1>8, <1>9, <1>10, <1>11, <1>12, <1>13, <1>14, <1>15, <1>16, <1>17
  DEF MetricStep

LEMMA MetricsInvariant == CatalogueSpec => []MetricsInv
<1>1. CatalogueInit => MetricsInv
  <2> SUFFICES ASSUME CatalogueInit PROVE MetricInv
    BY DEF MetricsInv
  <2>1. \A r \in Requests : MetricFacts(req[r])
    BY DEF CatalogueInit, NewRequest, MetricFacts
  <2>2. \A m \in Metrics : metric[m] # Nothing => NameTaken(metric[m])
    BY DEF CatalogueInit, NameTaken
  <2>3. \A x \in Models : \A m \in values[x] : metric[m] # Nothing
    BY DEF CatalogueInit
  <2>4. DeletedStay
    BY DEF CatalogueInit, DeletedStay
  <2> QED BY <2>1, <2>2, <2>3, <2>4 DEF MetricInv
<1>2. CatalogueTypeInv /\ OneIsBusyInv /\ MetricsInv /\ [CatalogueNext]_catalogue => MetricsInv'
  <2> SUFFICES ASSUME CatalogueTypeInv, OneIsBusyInv, MetricsInv, [CatalogueNext]_catalogue, Whole'
               PROVE  MetricInv'
    BY DEF MetricsInv
  <2>1. CASE UNCHANGED catalogue
    <3>1. Whole /\ /\ category' = category /\ metric' = metric /\ deleted' = deleted /\ values' = values /\ req' = req
      BY <2>1 DEF catalogue, metrics, Whole, Alone
    <3>2. MetricInv
      BY <3>1 DEF MetricsInv
    <3>3. \A r \in Requests : MetricFacts(req[r])'
      BY <3>1, <3>2 DEF MetricInv, MetricFacts, NameTaken
    <3> QED BY <3>1, <3>2, <3>3 DEF MetricInv, DeletedStay, NameTaken, Moving, Clearing
  <2>2. ASSUME NEW r \in Requests, CatalogueStep(r) PROVE MetricInv'
    <3>1. Whole
      BY <2>2, CircumstancesStay DEF Whole, Alone
    <3>2. Acts(r) /\ MetricInv
      BY <2>2, <3>1, OthersWait DEF OneIsBusyInv, Whole, CatalogueTypeInv, MetricsInv
    <3>3. CASE MetricStep(r)
      BY <3>2, <3>3, MetricStepKeepsInv
    <3>4. CASE TagStep(r) \/ FormatStep(r)
      <4> PICK p : p = req[r]
        OBVIOUS
      <4> PICK q : q = req'[r]
        OBVIOUS
      <4>1. UNCHANGED metrics
        BY <3>4, LabelsKeepTypes, FormatsKeepTypes
      <4>2. p.at \notin {"moving", "clearing"} /\ MetricFacts(q)
        BY <3>4, KindsStay DEF CatalogueTypeInv, TagKind, FormatSteps, MetricFacts
      <4>3. MetricView(p)
        BY <3>2, MetricsSeen
      <4> QED BY <3>2, <4>1, <4>2, <4>3, MetricsRest, MetricsShown
    <3>5. CASE Crash(r)
      BY <3>1, <3>5 DEF Crash, Whole
    <3> QED BY <2>2, <3>3, <3>4, <3>5 DEF CatalogueStep
  <2> QED BY <2>1, <2>2 DEF CatalogueNext, CatalogueStep
<1> QED
  BY <1>1, <1>2, CatalogueTypeInvariant, OneIsBusyInvariant, PTL DEF CatalogueSpec

-----------------------------------------------------------------------------
(* Tags.  A definition is dropped after the assets were searched for it.   *)
TagFacts(q) ==
  /\ q.at = "reading" => \A p \in q.put : p[1] \in defined
  /\ q.at = "tagging" => \A p \in q.tags : p[1] \in defined
  /\ q.at = "untagging" => \A a \in Assets : \A v \in Values : <<q.tag, v>> \notin tags[a]

TagInv == TagsAreDefined /\ \A r \in Requests : TagFacts(req[r])
TagsInv == Alone => TagInv

LEMMA TagsShown ==
  ASSUME NEW r \in Requests, Acts(r), NEW q, q = req'[r], TagsAreDefined', TagFacts(q)'
  PROVE  TagInv'
<1>1. \A s \in Requests \ {r} : TagFacts(req[s])'
  BY DEF Acts, Busy, TagFacts
<1> QED BY <1>1 DEF TagInv

LEMMA TagsRest ==
  ASSUME NEW q, TagsAreDefined, UNCHANGED labels, TagFacts(q)
  PROVE  TagsAreDefined' /\ TagFacts(q)'
BY DEF labels, TagsAreDefined, TagFacts

LEMMA TagStepKeepsInv ==
  ASSUME CatalogueTypeInv, TagInv, NEW r \in Requests, TagStep(r), Acts(r)
  PROVE  TagInv'
<1> PICK p : p = req[r]
  OBVIOUS
<1> PICK q : q = req'[r]
  OBVIOUS
<1>0. /\ Knows(p) /\ p \in Request /\ TagsAreDefined /\ TagFacts(p) /\ CatalogueTypeOK
      /\ tags \in [Assets -> SUBSET (Tags \X Values)]
  BY DEF CatalogueTypeInv, CatalogueTypeOK, RequestsKnow, TagInv
<1>1. SUFFICES TagsAreDefined' /\ TagFacts(q)'
  BY TagsShown
<1>end. End(r) => q.at = "done"
  BY <1>0, SetFrame DEF End, NewRequest
<1>done. q.at \in {"done", "searching"} => TagFacts(q) /\ TagFacts(q)'
  BY DEF TagFacts
<1>2. CASE CreateTag(r)
  <2>1. q.at = "done" /\ tags' = tags /\ defined \subseteq defined'
    BY <1>2, <1>end DEF CreateTag
  <2> QED BY <1>0, <1>done, <2>1 DEF TagsAreDefined
<1>3. CASE StartDeleteTag(r)
  <2>1. PICK t \in defined : q = [NewRequest EXCEPT !.at = "searching", !.tag = t]
    BY <1>3, <1>0, SetFrame DEF StartDeleteTag
  <2>2. q.at = "searching"
    BY <2>1 DEF NewRequest
  <2> QED BY <1>0, <1>3, <1>done, <2>2, TagsRest DEF StartDeleteTag, Start
<1>4. CASE SearchTag(r)
  <2>1. UNCHANGED labels
    BY <1>4 DEF SearchTag, Checked
  <2>2. CASE End(r)
    BY <1>0, <1>end, <1>done, <2>1, <2>2, TagsRest
  <2>3. CASE At(r, "untagging") /\ \A a \in Assets : \A v \in Values : <<p.tag, v>> \notin tags[a]
    <3>1. q = [p EXCEPT !.at = "untagging"]
      BY <1>0, <2>3, SetFrame DEF At
    <3>2. q.at = "untagging" /\ q.tag = p.tag
      BY <1>0, <3>1, Moved
    <3>3. TagFacts(q)
      BY <2>3, <3>2 DEF TagFacts
    <3> QED BY <1>0, <2>1, <3>3, TagsRest
  <2> QED BY <1>4, <2>2, <2>3 DEF SearchTag, Checked
<1>5. CASE DropTag(r)
  <2>1. p.at = "untagging" /\ q.at = "done" /\ tags' = tags /\ defined' = defined \ {p.tag}
    BY <1>5, <1>end DEF DropTag
  <2>2. ASSUME NEW a \in Assets, NEW x \in tags[a] PROVE x[1] # p.tag
    <3>1. PICK t \in Tags, v \in Values : x = <<t, v>>
      BY <1>0, <2>2
    <3> QED BY <1>0, <2>1, <2>2, <3>1 DEF TagFacts
  <2>3. TagsAreDefined'
    BY <1>0, <2>1, <2>2 DEF TagsAreDefined
  <2> QED BY <1>done, <2>1, <2>3
<1>6. CASE StartTagging(r)
  <2> PICK a \in Assets, put \in SUBSET (defined \X Values), drop \in SUBSET (Tags \X Values) :
        Set(r, [NewRequest EXCEPT !.at = "reading", !.asset = a, !.put = put, !.drop = drop])
    BY <1>6 DEF StartTagging
  <2>1. q = [NewRequest EXCEPT !.at = "reading", !.asset = a, !.put = put, !.drop = drop]
    BY <1>0, SetFrame
  <2>2. q.at = "reading" /\ q.put = put
    BY <2>1 DEF NewRequest
  <2>3. \A x \in put : x[1] \in defined
    OBVIOUS
  <2>4. TagFacts(q)
    BY <2>2, <2>3 DEF TagFacts
  <2> QED BY <1>0, <1>6, <2>4, TagsRest DEF StartTagging, Start
<1>7. CASE ReadTags(r)
  <2> PICK T : T = (tags[p.asset] \union p.put) \ p.drop
    OBVIOUS
  <2>1. p.at = "reading" /\ q = [p EXCEPT !.at = "tagging", !.tags = T] /\ UNCHANGED labels
    BY <1>7, <1>0, SetFrame DEF ReadTags
  <2>2. q.at = "tagging" /\ q.tags = T
    BY <1>0, <2>1 DEF Request
  <2>3. \A x \in T : x[1] \in defined
    BY <1>0, <2>1 DEF TagFacts, TagsAreDefined, Knows
  <2>4. TagFacts(q)
    BY <2>2, <2>3 DEF TagFacts
  <2> QED BY <1>0, <2>1, <2>4, TagsRest
<1>8. CASE WriteTags(r)
  <2>1. p.at = "tagging" /\ q.at = "done" /\ tags' = [tags EXCEPT ![p.asset] = p.tags] /\ defined' = defined
    BY <1>8, <1>end DEF WriteTags
  <2>2. \A x \in p.tags : x[1] \in defined
    BY <1>0, <2>1 DEF TagFacts
  <2>3. TagsAreDefined'
    BY <1>0, <2>1, <2>2 DEF TagsAreDefined
  <2> QED BY <1>done, <2>1, <2>3
<1> QED
  BY <1>2, <1>3, <1>4, <1>5, <1>6, <1>7, <1>8 DEF TagStep

LEMMA TagsInvariant == CatalogueSpec => []TagsInv
<1>1. CatalogueInit => TagsInv
  <2> SUFFICES ASSUME CatalogueInit PROVE TagInv
    BY DEF TagsInv
  <2>1. \A r \in Requests : TagFacts(req[r])
    BY DEF CatalogueInit, NewRequest, TagFacts
  <2>2. TagsAreDefined
    <3>1. CASE "tags" \in occurring
      <4>1. tags \in [Assets -> SUBSET (defined \X Values)]
        BY <3>1 DEF CatalogueInit
      <4> QED BY <4>1 DEF TagsAreDefined
    <3>2. CASE "tags" \notin occurring
      BY <3>2 DEF CatalogueInit, TagsAreDefined
    <3> QED BY <3>1, <3>2
  <2> QED BY <2>1, <2>2 DEF TagInv
<1>2. CatalogueTypeInv /\ OneIsBusyInv /\ TagsInv /\ [CatalogueNext]_catalogue => TagsInv'
  <2> SUFFICES ASSUME CatalogueTypeInv, OneIsBusyInv, TagsInv, [CatalogueNext]_catalogue, Alone'
               PROVE  TagInv'
    BY DEF TagsInv
  <2>1. CASE UNCHANGED catalogue
    <3>1. TagInv /\ UNCHANGED labels /\ req' = req
      BY <2>1 DEF catalogue, Alone, TagsInv
    <3>2. \A r \in Requests : TagFacts(req[r])'
      BY <3>1 DEF TagInv, TagFacts, labels
    <3> QED BY <3>1, <3>2 DEF TagInv, TagsAreDefined, labels
  <2>2. ASSUME NEW r \in Requests, CatalogueStep(r) PROVE TagInv'
    <3>1. Alone
      BY <2>2, CircumstancesStay DEF Alone
    <3>2. Acts(r) /\ TagInv
      BY <2>2, <3>1, OthersWait DEF OneIsBusyInv, CatalogueTypeInv, TagsInv
    <3>3. CASE TagStep(r)
      BY <3>2, <3>3, TagStepKeepsInv
    <3>4. CASE MetricStep(r) \/ FormatStep(r) \/ Crash(r)
      <4> PICK q : q = req'[r]
        OBVIOUS
      <4>1. UNCHANGED labels
        BY <3>4, MetricsKeepTypes, FormatsKeepTypes DEF Crash
      <4>2. q.at \in MetricKind \union FormatSteps \union {"done"}
        BY <3>4, KindsStay, SetFrame DEF CatalogueTypeInv, Crash, End, NewRequest
      <4>3. TagFacts(q)
        BY <4>2 DEF MetricKind, FormatSteps, TagFacts
      <4> QED BY <3>2, <4>1, <4>3, TagsRest, TagsShown DEF TagInv
    <3> QED BY <2>2, <3>3, <3>4 DEF CatalogueStep
  <2> QED BY <2>1, <2>2 DEF CatalogueNext, CatalogueStep
<1> QED
  BY <1>1, <1>2, CatalogueTypeInvariant, OneIsBusyInvariant, PTL DEF CatalogueSpec

-----------------------------------------------------------------------------
(* Formats.  A request that has compared extensions, or searched for files *)
(* that use them, writes to the formats it has compared and searched.      *)
MayBeAdded(t, S) ==
  RowsOf(t) = {} /\ (t \in Exempt \/ \A f \in Conflict(t, S) : f.type \in Exempt)
MayBeChanged(t, S) ==
  \A f \in RowsOf(t) :
    /\ t \in Exempt \/ Conflict(t, S) = {}
    /\ \A e \in f.extensions \ S : <<t, e>> \notin files

FormatFacts(q) ==
  /\ q.at = "adding" => MayBeAdded(q.type, q.extensions)
  /\ q.at = "changing" => MayBeChanged(q.type, q.extensions)
  /\ q.at = "withdrawing" => \A e \in Extensions : <<q.type, e>> \notin files
  /\ q.at = "uploading" => \E f \in RowsOf(q.type) : q.extensions \subseteq f.extensions

FormatInv == FilesHaveFormats /\ FormatsAreSingle /\ \A r \in Requests : FormatFacts(req[r])
FormatsInv == Alone => FormatInv

LEMMA FormatsShown ==
  ASSUME NEW r \in Requests, Acts(r), NEW q, q = req'[r],
         FilesHaveFormats', FormatsAreSingle', FormatFacts(q)'
  PROVE  FormatInv'
<1>1. \A s \in Requests \ {r} : FormatFacts(req[s])'
  BY DEF Acts, Busy, FormatFacts
<1> QED BY <1>1 DEF FormatInv

LEMMA FormatsRest ==
  ASSUME NEW q, FilesHaveFormats, FormatsAreSingle, UNCHANGED types, FormatFacts(q)
  PROVE  FilesHaveFormats' /\ FormatsAreSingle' /\ FormatFacts(q)'
<1>1. formats' = formats /\ files' = files
  BY DEF types
<1>2. FilesHaveFormats' /\ FormatsAreSingle'
  BY <1>1 DEF FilesHaveFormats, FormatsAreSingle, RowsOf
<1>3. FormatFacts(q)'
  BY <1>1 DEF FormatFacts, MayBeAdded, MayBeChanged, RowsOf, Conflict
<1> QED BY <1>2, <1>3

(* A row of another type, or with other extensions, conflicts with none.   *)
LEMMA AddedIsSingle ==
  ASSUME FormatsAreSingle, NEW n, formats' = formats \union {n}, MayBeAdded(n.type, n.extensions)
  PROVE  FormatsAreSingle'
<1>1. \A f \in formats : f.type # n.type
  BY DEF MayBeAdded, RowsOf
<1>2. ASSUME NEW f \in formats, f.extensions \intersect n.extensions # {}
      PROVE  {f.type, n.type} \intersect Exempt # {}
  BY <1>1, <1>2 DEF MayBeAdded, Conflict
<1> QED
  BY <1>1, <1>2 DEF FormatsAreSingle

LEMMA ChangedIsSingle ==
  ASSUME FormatsAreSingle, NEW f \in formats, NEW n, n.type = f.type,
         formats' = (formats \ {f}) \union {n}, n.type \in Exempt \/ Conflict(n.type, n.extensions) = {}
  PROVE  FormatsAreSingle'
<1>1. \A g \in formats \ {f} : g.type # n.type
  BY DEF FormatsAreSingle
<1>2. ASSUME NEW g \in formats \ {f}, g.extensions \intersect n.extensions # {}
      PROVE  {g.type, n.type} \intersect Exempt # {}
  BY <1>1, <1>2 DEF Conflict
<1>3. \A g \in formats \ {f} : n # g /\ g.type # n.type
  BY <1>1
<1> QED
  BY <1>2, <1>3 DEF FormatsAreSingle

LEMMA FormatStepKeepsInv ==
  ASSUME CatalogueTypeInv, FormatInv, NEW r \in Requests, FormatStep(r), Acts(r)
  PROVE  FormatInv'
<1> PICK p : p = req[r]
  OBVIOUS
<1> PICK q : q = req'[r]
  OBVIOUS
<1>0. /\ Knows(p) /\ p \in Request /\ FilesHaveFormats /\ FormatsAreSingle /\ FormatFacts(p) /\ CatalogueTypeOK
      /\ formats \subseteq Format /\ files \subseteq Types \X Extensions
  BY DEF CatalogueTypeInv, CatalogueTypeOK, RequestsKnow, FormatInv
<1>1. SUFFICES FilesHaveFormats' /\ FormatsAreSingle' /\ FormatFacts(q)'
  BY FormatsShown
<1>end. End(r) => q.at = "done"
  BY <1>0, SetFrame DEF End, NewRequest
<1>done. q.at \in {"done", "comparing", "checking", "using"} => FormatFacts(q) /\ FormatFacts(q)'
  BY DEF FormatFacts
<1>at. ASSUME NEW s, At(r, s)
       PROVE  q.at = s /\ q.type = p.type /\ q.extensions = p.extensions
  <2>1. q = [p EXCEPT !.at = s]
    BY <1>0, <1>at, SetFrame DEF At
  <2> QED BY <1>0, <2>1, Moved
<1>2. CASE StartCreateFormat(r) \/ StartUpdateFormat(r)
  <2>1. PICK s \in {"comparing", "checking"}, t \in Types, S \in SUBSET Extensions :
          q = [NewRequest EXCEPT !.at = s, !.type = t, !.extensions = S]
    BY <1>2, <1>0, SetFrame DEF StartCreateFormat, StartUpdateFormat
  <2>2. q.at \in {"comparing", "checking"}
    BY <2>1 DEF NewRequest
  <2> QED BY <1>0, <1>2, <1>done, <2>2, FormatsRest DEF StartCreateFormat, StartUpdateFormat, Start
<1>3. CASE CompareFormats(r)
  <2>1. UNCHANGED types
    BY <1>3 DEF CompareFormats, Checked
  <2>2. CASE End(r)
    BY <1>0, <1>end, <1>done, <2>1, <2>2, FormatsRest
  <2>3. CASE At(r, "adding") /\ MayBeAdded(p.type, p.extensions)
    <3>1. FormatFacts(q)
      BY <1>at, <2>3 DEF FormatFacts
    <3> QED BY <1>0, <2>1, <3>1, FormatsRest
  <2> QED BY <1>3, <2>2, <2>3 DEF CompareFormats, Checked, MayBeAdded
<1>4. CASE AddFormat(r)
  <2> PICK n : n = [type |-> p.type, extensions |-> p.extensions, id |-> r]
    OBVIOUS
  <2>1. n.type = p.type /\ n.extensions = p.extensions
    OBVIOUS
  <2>2. p.at = "adding" /\ q.at = "done" /\ formats' = formats \union {n} /\ files' = files
    BY <1>4, <1>end DEF AddFormat
  <2>3. MayBeAdded(n.type, n.extensions)
    BY <1>0, <2>1, <2>2 DEF FormatFacts
  <2>4. FormatsAreSingle'
    BY <1>0, <2>2, <2>3, AddedIsSingle
  <2>5. FilesHaveFormats'
    BY <1>0, <2>2 DEF FilesHaveFormats, RowsOf
  <2> QED BY <1>done, <2>2, <2>4, <2>5
<1>5. CASE CheckFormat(r)
  <2>1. UNCHANGED types
    BY <1>5 DEF CheckFormat, Checked
  <2>2. CASE End(r)
    BY <1>0, <1>end, <1>done, <2>1, <2>2, FormatsRest
  <2>3. CASE ~End(r)
    <3>1. PICK f \in RowsOf(p.type) :
            /\ At(r, "changing")
            /\ p.type \in Exempt \/ Conflict(p.type, p.extensions) = {}
            /\ \A e \in f.extensions \ p.extensions : <<p.type, e>> \notin files
      BY <1>5, <2>3 DEF CheckFormat, Checked
    <3>2. RowsOf(p.type) = {f}
      BY <1>0 DEF RowsOf, FormatsAreSingle
    <3>3. MayBeChanged(p.type, p.extensions)
      BY <3>1, <3>2 DEF MayBeChanged
    <3>4. FormatFacts(q)
      BY <1>at, <3>1, <3>3 DEF FormatFacts
    <3> QED BY <1>0, <2>1, <3>4, FormatsRest
  <2> QED BY <2>2, <2>3
<1>6. CASE ChangeFormat(r)
  <2>1. p.at = "changing" /\ q.at = "done" /\ files' = files
    BY <1>6, <1>end DEF ChangeFormat
  <2>2. CASE formats' = formats
    BY <1>0, <1>done, <2>1, <2>2 DEF FilesHaveFormats, FormatsAreSingle, RowsOf
  <2>3. CASE formats' # formats
    <3>1. PICK f \in RowsOf(p.type) :
            formats' = (formats \ {f}) \union {[f EXCEPT !.extensions = p.extensions]}
      BY <1>6, <2>3 DEF ChangeFormat
    <3> PICK n : n = [f EXCEPT !.extensions = p.extensions]
      OBVIOUS
    <3>2. f \in formats /\ f \in Format /\ f.type = p.type
      BY <1>0 DEF RowsOf
    <3>3. n.type = p.type /\ n.extensions = p.extensions
      BY <3>2 DEF Format
    <3>4. MayBeChanged(p.type, p.extensions)
      BY <1>0, <2>1 DEF FormatFacts
    <3>5. FormatsAreSingle'
      BY <1>0, <3>1, <3>2, <3>3, <3>4, ChangedIsSingle DEF MayBeChanged
    <3>6. ASSUME NEW x \in files PROVE \E g \in formats' : g.type = x[1] /\ x[2] \in g.extensions
      <4>1. PICK t \in Types, e \in Extensions : x = <<t, e>>
        BY <1>0
      <4>2. PICK g \in formats : g.type = t /\ e \in g.extensions
        BY <1>0, <3>6, <4>1 DEF FilesHaveFormats, RowsOf
      <4>3. CASE g = f
        BY <3>1, <3>2, <3>3, <3>4, <3>6, <4>1, <4>2, <4>3 DEF MayBeChanged
      <4>4. CASE g # f
        BY <3>1, <4>1, <4>2, <4>4
      <4> QED BY <4>3, <4>4
    <3>7. FilesHaveFormats'
      BY <2>1, <3>6 DEF FilesHaveFormats, RowsOf
    <3> QED BY <1>done, <2>1, <3>5, <3>7
  <2> QED BY <2>2, <2>3
<1>7. CASE StartDeleteFormat(r)
  <2>1. PICK t \in Types : q = [NewRequest EXCEPT !.at = "using", !.type = t]
    BY <1>7, <1>0, SetFrame DEF StartDeleteFormat
  <2>2. q.at = "using"
    BY <2>1 DEF NewRequest
  <2> QED BY <1>0, <1>7, <1>done, <2>2, FormatsRest DEF StartDeleteFormat, Start
<1>8. CASE SearchFiles(r)
  <2>1. UNCHANGED types
    BY <1>8 DEF SearchFiles, Checked
  <2>2. CASE End(r)
    BY <1>0, <1>end, <1>done, <2>1, <2>2, FormatsRest
  <2>3. CASE At(r, "withdrawing") /\ \A e \in Extensions : <<p.type, e>> \notin files
    <3>1. FormatFacts(q)
      BY <1>at, <2>3 DEF FormatFacts
    <3> QED BY <1>0, <2>1, <3>1, FormatsRest
  <2> QED BY <1>8, <2>2, <2>3 DEF SearchFiles, Checked
<1>9. CASE WithdrawFormat(r)
  <2>1. p.at = "withdrawing" /\ q.at = "done" /\ files' = files /\ formats' \subseteq formats
    BY <1>9, <1>end DEF WithdrawFormat
  <2>2. \A f \in formats \ formats' : f.type = p.type
    BY <1>9 DEF WithdrawFormat, RowsOf
  <2>3. \A e \in Extensions : <<p.type, e>> \notin files
    BY <1>0, <2>1 DEF FormatFacts
  <2>4. ASSUME NEW x \in files PROVE \E g \in formats' : g.type = x[1] /\ x[2] \in g.extensions
    <3>1. PICK t \in Types, e \in Extensions : x = <<t, e>>
      BY <1>0
    <3>2. PICK g \in formats : g.type = t /\ e \in g.extensions
      BY <1>0, <2>4, <3>1 DEF FilesHaveFormats, RowsOf
    <3> QED BY <2>2, <2>3, <2>4, <3>1, <3>2
  <2>5. FilesHaveFormats'
    BY <2>1, <2>4 DEF FilesHaveFormats, RowsOf
  <2>6. FormatsAreSingle'
    BY <1>0, <2>1 DEF FormatsAreSingle
  <2> QED BY <1>done, <2>1, <2>5, <2>6
<1>10. CASE StartUpload(r)
  <2>1. PICK f \in formats, e \in Extensions :
          /\ e \in f.extensions
          /\ Set(r, [NewRequest EXCEPT !.at = "uploading", !.type = f.type, !.extensions = {e}])
    BY <1>10 DEF StartUpload
  <2>2. q = [NewRequest EXCEPT !.at = "uploading", !.type = f.type, !.extensions = {e}]
    BY <1>0, <2>1, SetFrame
  <2>3. q.at = "uploading" /\ q.type = f.type /\ q.extensions = {e}
    BY <2>2 DEF NewRequest
  <2>4. FormatFacts(q)
    BY <2>1, <2>3 DEF FormatFacts, RowsOf
  <2> QED BY <1>0, <1>10, <2>4, FormatsRest DEF StartUpload, Start
<1>11. CASE UploadFile(r)
  <2>1. p.at = "uploading" /\ q.at = "done" /\ formats' = formats /\ files' = files \union ({p.type} \X p.extensions)
    BY <1>11, <1>end DEF UploadFile
  <2>2. PICK f \in RowsOf(p.type) : p.extensions \subseteq f.extensions
    BY <1>0, <2>1 DEF FormatFacts
  <2>3. FilesHaveFormats'
    BY <1>0, <2>1, <2>2 DEF FilesHaveFormats, RowsOf
  <2>4. FormatsAreSingle'
    BY <1>0, <2>1 DEF FormatsAreSingle
  <2> QED BY <1>done, <2>1, <2>3, <2>4
<1> QED
  BY <1>2, <1>3, <1>4, <1>5, <1>6, <1>7, <1>8, <1>9, <1>10, <1>11 DEF FormatStep

LEMMA FormatsInvariant == CatalogueSpec => []FormatsInv
<1>1. CatalogueInit => FormatsInv
  BY DEF CatalogueInit, NewRequest, FormatsInv, FormatInv, FormatFacts, FilesHaveFormats, FormatsAreSingle
<1>2. CatalogueTypeInv /\ OneIsBusyInv /\ FormatsInv /\ [CatalogueNext]_catalogue => FormatsInv'
  <2> SUFFICES ASSUME CatalogueTypeInv, OneIsBusyInv, FormatsInv, [CatalogueNext]_catalogue, Alone'
               PROVE  FormatInv'
    BY DEF FormatsInv
  <2>1. CASE UNCHANGED catalogue
    <3>1. FormatInv /\ formats' = formats /\ files' = files /\ req' = req
      BY <2>1 DEF catalogue, types, Alone, FormatsInv
    <3>2. FilesHaveFormats' /\ FormatsAreSingle'
      BY <3>1 DEF FormatInv, FilesHaveFormats, FormatsAreSingle, RowsOf
    <3>3. \A r \in Requests : FormatFacts(req[r])'
      BY <3>1 DEF FormatInv, FormatFacts, MayBeAdded, MayBeChanged, RowsOf, Conflict
    <3> QED BY <3>2, <3>3 DEF FormatInv
  <2>2. ASSUME NEW r \in Requests, CatalogueStep(r) PROVE FormatInv'
    <3>1. Alone
      BY <2>2, CircumstancesStay DEF Alone
    <3>2. Acts(r) /\ FormatInv
      BY <2>2, <3>1, OthersWait DEF OneIsBusyInv, CatalogueTypeInv, FormatsInv
    <3>3. CASE FormatStep(r)
      BY <3>2, <3>3, FormatStepKeepsInv
    <3>4. CASE MetricStep(r) \/ TagStep(r) \/ Crash(r)
      <4> PICK q : q = req'[r]
        OBVIOUS
      <4>1. UNCHANGED types
        BY <3>4, MetricsKeepTypes, LabelsKeepTypes DEF Crash
      <4>2. q.at \in MetricKind \union TagKind \union {"done"}
        BY <3>4, KindsStay, SetFrame DEF CatalogueTypeInv, Crash, End, NewRequest
      <4>3. FormatFacts(q)
        BY <4>2 DEF MetricKind, TagKind, FormatFacts
      <4> QED BY <3>2, <4>1, <4>3, FormatsRest, FormatsShown DEF FormatInv
    <3> QED BY <2>2, <3>3, <3>4 DEF CatalogueStep
  <2> QED BY <2>1, <2>2 DEF CatalogueNext, CatalogueStep
<1> QED
  BY <1>1, <1>2, CatalogueTypeInvariant, OneIsBusyInvariant, PTL DEF CatalogueSpec

(* As long as requests come one after the other, metrics, values, tags and *)
(* files name what is defined, and an extension leads to one type; the     *)
(* process may end at any point of a request on tags or formats.           *)
THEOREM ReferencesHold == CatalogueSpec => []ReferencesAreDefined
<1>1. OneIsBusyInv /\ MetricsInv /\ TagsInv /\ FormatsInv => ReferencesAreDefined
  <2> SUFFICES ASSUME MetricsInv, TagsInv, FormatsInv, Orderly
               PROVE  /\ "crash" \notin occurring => MetricsHaveCategories /\ ValuesHaveMetrics
                      /\ TagsAreDefined /\ FilesHaveFormats /\ FormatsAreSingle
    BY DEF ReferencesAreDefined
  <2>1. Alone
    BY DEF Orderly, Alone
  <2>2. ASSUME "crash" \notin occurring PROVE MetricsHaveCategories /\ ValuesHaveMetrics
    <3>1. MetricInv
      BY <2>1, <2>2 DEF MetricsInv, Whole
    <3> QED
      BY <3>1 DEF MetricInv, Orderly, AllIdle, Busy, Moving, Clearing, MetricsHaveCategories, ValuesHaveMetrics
  <2> QED
    BY <2>1, <2>2 DEF TagsInv, TagInv, FormatsInv, FormatInv
<1> QED
  BY <1>1, OneIsBusyInvariant, MetricsInvariant, TagsInvariant, FormatsInvariant, PTL
=============================================================================
