----------------------- MODULE ProjectContentsProofs -----------------------
(***************************************************************************)
(* Proofs about ProjectContents, for any number of projects, orders, files *)
(* and handlers in flight, and failures before any step.                   *)
(***************************************************************************)
EXTENDS ProjectContents, TLAPS

Born(o) == orders[o].state # "unborn"

(* Every row ever inserted has a key of its own, under which a file was    *)
(* stored.                                                                 *)
OrdersOK ==
  /\ \A o \in OrderIds : Born(o) =>
       /\ orders[o].project \in Projects /\ orders[o].key \in Keys
       /\ bucket[orders[o].key] # "unused"
  /\ \A o, n \in OrderIds : Born(o) /\ Born(n) /\ orders[o].key = orders[n].key => o = n

(* What a handler in flight carries, and what it knows of the two stores.  *)
Carries(call) ==
  /\ call.at \in {"store", "insert", "find", "answer"} => call.project \in Projects
  /\ call.at \in {"store", "insert"} => call.admin \in Admins
  /\ call.at \in {"unstore", "delete", "find", "answer"} => call.order \in OrderIds
  /\ call.at \in {"insert", "unstore", "delete", "answer"} => call.key \in Keys

CallOK(call) ==
  /\ call \in Call
  /\ Carries(call)
  /\ call.at = "insert" =>
       bucket[call.key] = "stored" /\ \A o \in OrderIds : Born(o) => orders[o].key # call.key
  /\ call.at \in {"unstore", "delete", "answer"} =>
       Born(call.order) /\ orders[call.order].key = call.key
  /\ call.at = "delete" => bucket[call.key] = "deleted"
  /\ call.at = "answer" => orders[call.order].project = call.project

CallsOK ==
  /\ calls \in [Calls -> Call]
  /\ \A c \in Calls : CallOK(calls[c])
  /\ \A c, d \in Calls :
       calls[c].at = "insert" /\ calls[d].at = "insert" /\ calls[c].key = calls[d].key => c = d

IInv == TypeOK /\ OrdersOK /\ CallsOK

-----------------------------------------------------------------------------
LEMMA IdleOK == Idle \in Call /\ CallOK(Idle)
BY DEF Idle, Call, CallOK, Carries

LEMMA IdleOKPrime == CallOK(Idle)'
BY DEF Idle, Call, CallOK, Carries

LEMMA InitOK == Init => IInv /\ NothingDangles /\ ListedFilesExist /\ DeletionsLeaveNoFile
<1> SUFFICES ASSUME Init PROVE IInv /\ NothingDangles /\ ListedFilesExist /\ DeletionsLeaveNoFile
  OBVIOUS
<1>1. NoOrder \in OrderRow /\ NoField \in FieldRow
  BY DEF NoOrder, OrderRow, NoField, FieldRow, RowStates
<1>2. TypeOK
  BY <1>1, IdleOK DEF Init, TypeOK
<1>3. OrdersOK
  BY DEF Init, OrdersOK, Born, NoOrder
<1>4. CallsOK
  BY IdleOK DEF Init, CallsOK, Idle
<1>5. NothingDangles /\ ListedFilesExist /\ DeletionsLeaveNoFile
  BY DEF Init, NothingDangles, ListedFilesExist, DeletionsLeaveNoFile, LiveOrder, LiveField, NoOrder,
         NoField
<1>. QED BY <1>2, <1>3, <1>4, <1>5 DEF IInv

-----------------------------------------------------------------------------
(* Calls that another step leaves alone. *)
LEMMA StoresKept ==
  ASSUME UNCHANGED <<orders, bucket>>
  PROVE  (OrdersOK => OrdersOK') /\ \A call : CallOK(call) => CallOK(call)'
BY DEF OrdersOK, Born, CallOK

LEMMA CallGoesOn ==
  ASSUME CallsOK, NEW c \in Calls, NEW call, calls' = [calls EXCEPT ![c] = call],
         CallOK(call), call.at # "insert", UNCHANGED <<orders, bucket>>
  PROVE  CallsOK'
<1>1. \A d \in Calls : calls'[d] = IF d = c THEN call ELSE calls[d]
  BY DEF CallsOK
<1>2. call \in Call
  BY DEF CallOK
<1>3. calls' \in [Calls -> Call]
  BY <1>2 DEF CallsOK
<1>4. ASSUME NEW d \in Calls PROVE CallOK(calls[d])'
  <2>1. CallOK(calls'[d])
    BY <1>1 DEF CallsOK
  <2>. QED BY <2>1 DEF CallOK, Born
<1>5. \A d, e \in Calls :
        calls'[d].at = "insert" /\ calls'[e].at = "insert" /\ calls'[d].key = calls'[e].key => d = e
  BY <1>1 DEF CallsOK
<1>. QED BY <1>3, <1>4, <1>5 DEF CallsOK

(* A call that ends leaves the other calls as they are. *)
LEMMA CallEnds ==
  ASSUME CallsOK, NEW c \in Calls, Return(c),
         \A d \in Calls : d # c => CallOK(calls[d])'
  PROVE  CallsOK'
<1>1. \A d \in Calls : calls'[d] = IF d = c THEN Idle ELSE calls[d]
  BY DEF CallsOK, Return
<1>2. calls' \in [Calls -> Call]
  BY IdleOK DEF CallsOK, Return
<1>3. ASSUME NEW d \in Calls PROVE CallOK(calls[d])'
  <2>1. CASE d = c
    BY <1>1, <2>1, IdleOKPrime DEF CallOK
  <2>. QED BY <2>1
<1>4. \A d, e \in Calls :
        calls'[d].at = "insert" /\ calls'[e].at = "insert" /\ calls'[d].key = calls'[e].key => d = e
  BY <1>1 DEF CallsOK, Idle
<1>. QED BY <1>2, <1>3, <1>4 DEF CallsOK

-----------------------------------------------------------------------------
(* The files that rows list, and the rows that list files. *)
FilesOK == ListedFilesExist /\ DeletionsLeaveNoFile

(* A step of a call that touches neither store. *)
LEMMA CallStep ==
  ASSUME IInv, FilesOK, NEW c \in Calls, NEW call, calls' = [calls EXCEPT ![c] = call],
         CallOK(call), call.at # "insert",
         UNCHANGED <<tables, bucket>>,
         orphaned \subseteq orphaned', orphaned' \subseteq Keys,
         broken \subseteq broken', broken' \subseteq OrderIds,
         calls[c].at = "insert" => calls[c].key \in orphaned',
         calls[c].at = "delete" => calls[c].order \in broken'
  PROVE  IInv' /\ FilesOK'
<1>1. \A d \in Calls : calls'[d] = IF d = c THEN call ELSE calls[d]
  BY DEF IInv, CallsOK
<1>2. OrdersOK' /\ CallsOK'
  BY StoresKept, CallGoesOn DEF IInv, tables
<1>3. TypeOK'
  BY <1>2 DEF IInv, TypeOK, tables, CallsOK
<1>4. ASSUME NEW o \in OrderIds, LiveOrder(o)'
      PROVE  bucket'[orders'[o].key] = "stored" \/ BeingDeleted(o)' \/ o \in broken'
  BY <1>1, <1>4 DEF FilesOK, ListedFilesExist, BeingDeleted, LiveOrder, tables
<1>5. ASSUME NEW k \in Keys, bucket'[k] = "stored"
      PROVE  \/ Named(k)' \/ k \in orphaned'
             \/ \E d \in Calls : calls'[d].at = "insert" /\ calls'[d].key = k
  BY <1>1, <1>5 DEF FilesOK, DeletionsLeaveNoFile, Named, LiveOrder, tables
<1>. QED BY <1>2, <1>3, <1>4, <1>5 DEF IInv, FilesOK, ListedFilesExist, DeletionsLeaveNoFile

LEMMA UploadWorkOrderStep ==
  ASSUME IInv, FilesOK, NEW c \in Calls, NEW a \in Admins, NEW p \in Projects, UploadWorkOrder(c, a, p)
  PROVE  IInv' /\ FilesOK'
<1> DEFINE call == [Idle EXCEPT !.at = "store", !.admin = a, !.project = p]
<1>1. call \in Call /\ call.at = "store" /\ call.project = p /\ call.admin = a
  BY IdleOK DEF Idle, Call, Steps
<1>2. CallOK(call)
  BY <1>1 DEF CallOK, Carries
<1>3. calls' = [calls EXCEPT ![c] = call] /\ calls[c].at = "idle"
  BY DEF UploadWorkOrder, Begin, Idle
<1> HIDE DEF call
<1>. QED BY <1>1, <1>2, <1>3, CallStep DEF UploadWorkOrder, IInv, TypeOK

LEMMA DeleteWorkOrderStep ==
  ASSUME IInv, FilesOK, NEW c \in Calls, NEW o \in OrderIds, DeleteWorkOrder(c, o)
  PROVE  IInv' /\ FilesOK'
<1> DEFINE call == [Idle EXCEPT !.at = "unstore", !.order = o, !.key = orders[o].key]
<1>1. Born(o) /\ orders[o].key \in Keys
  BY DEF DeleteWorkOrder, LiveOrder, Born, IInv, OrdersOK
<1>2. call \in Call /\ call.at = "unstore" /\ call.order = o /\ call.key = orders[o].key
  BY <1>1, IdleOK DEF Idle, Call, Steps
<1>3. CallOK(call)
  BY <1>1, <1>2 DEF CallOK, Carries
<1>4. calls' = [calls EXCEPT ![c] = call] /\ calls[c].at = "idle"
  BY DEF DeleteWorkOrder, Begin, Idle
<1> HIDE DEF call
<1>. QED BY <1>2, <1>3, <1>4, CallStep DEF DeleteWorkOrder, IInv, TypeOK

LEMMA ViewWorkOrderStep ==
  ASSUME IInv, FilesOK, NEW c \in Calls, NEW p \in Projects, NEW o \in OrderIds, ViewWorkOrder(c, p, o)
  PROVE  IInv' /\ FilesOK'
<1> DEFINE call == [Idle EXCEPT !.at = "find", !.project = p, !.order = o]
<1>1. call \in Call /\ call.at = "find" /\ call.project = p /\ call.order = o
  BY IdleOK DEF Idle, Call, Steps
<1>2. CallOK(call)
  BY <1>1 DEF CallOK, Carries
<1>3. calls' = [calls EXCEPT ![c] = call] /\ calls[c].at = "idle"
  BY DEF ViewWorkOrder, Begin, Idle
<1> HIDE DEF call
<1>. QED BY <1>1, <1>2, <1>3, CallStep DEF ViewWorkOrder, IInv, TypeOK

LEMMA ReturnStep ==
  ASSUME IInv, FilesOK, NEW c \in Calls, Return(c),
         UNCHANGED <<tables, bucket>>,
         orphaned \subseteq orphaned', orphaned' \subseteq Keys,
         broken \subseteq broken', broken' \subseteq OrderIds,
         calls[c].at = "insert" => calls[c].key \in orphaned',
         calls[c].at = "delete" => calls[c].order \in broken'
  PROVE  IInv' /\ FilesOK'
<1>1. Idle.at = "idle"
  BY DEF Idle
<1>. QED BY <1>1, IdleOK, CallStep DEF Return

LEMMA FindWorkOrderStep ==
  ASSUME IInv, FilesOK, NEW c \in Calls, FindWorkOrder(c)
  PROVE  IInv' /\ FilesOK'
<1>1. CASE Return(c)
  BY <1>1, ReturnStep DEF FindWorkOrder, IInv, TypeOK
<1>2. CASE Found(c) /\ calls' = [calls EXCEPT ![c].at = "answer",
                                             ![c].key = orders[calls[c].order].key]
  <2> DEFINE o == calls[c].order
  <2> DEFINE call == [calls[c] EXCEPT !.at = "answer", !.key = orders[o].key]
  <2>1. calls[c] \in Call /\ calls[c].at = "find" /\ o \in OrderIds /\ calls[c].project \in Projects
    BY DEF FindWorkOrder, IInv, CallsOK, CallOK, Carries
  <2>2. Born(o) /\ orders[o].key \in Keys /\ orders[o].project = calls[c].project
    BY <1>2, <2>1 DEF Found, LiveOrder, Born, IInv, OrdersOK
  <2>3. /\ call \in Call /\ call.at = "answer" /\ call.order = o /\ call.key = orders[o].key
        /\ call.project = calls[c].project
    BY <2>1, <2>2 DEF Call, Steps
  <2>4. CallOK(call)
    BY <2>1, <2>2, <2>3 DEF CallOK, Carries
  <2>5. calls' = [calls EXCEPT ![c] = call]
    BY <1>2 DEF IInv, CallsOK
  <2> HIDE DEF call
  <2>. QED BY <2>1, <2>3, <2>4, <2>5, CallStep DEF FindWorkOrder, IInv, TypeOK
<1>. QED BY <1>1, <1>2 DEF FindWorkOrder

LEMMA FailStep ==
  ASSUME IInv, FilesOK, NEW c \in Calls, Fail(c)
  PROVE  IInv' /\ FilesOK'
<1>1. /\ calls[c].at = "insert" => calls[c].key \in Keys
      /\ calls[c].at = "delete" => calls[c].order \in OrderIds
  BY DEF IInv, CallsOK, CallOK, Carries
<1>. QED BY <1>1, ReturnStep DEF Fail, IInv, TypeOK

-----------------------------------------------------------------------------
(* Steps that change a store. *)

(* A new key is no order's and no other call's. *)
LEMMA StoreFileStep ==
  ASSUME IInv, FilesOK, NEW c \in Calls, NEW k \in Keys, StoreFile(c, k)
  PROVE  IInv' /\ FilesOK'
<1> DEFINE call == [calls[c] EXCEPT !.at = "insert", !.key = k]
<1>1. calls[c] \in Call /\ calls[c].at = "store" /\ bucket[k] = "unused"
      /\ calls[c].project \in Projects /\ calls[c].admin \in Admins
  BY DEF StoreFile, IInv, CallsOK, CallOK, Carries
<1>2. /\ call \in Call /\ call.at = "insert" /\ call.key = k
      /\ call.project = calls[c].project /\ call.admin = calls[c].admin
  BY <1>1 DEF Call, Steps
<1>3. calls' = [calls EXCEPT ![c] = call]
  BY DEF StoreFile, IInv, CallsOK
<1>4. \A d \in Calls : calls'[d] = IF d = c THEN call ELSE calls[d]
  BY <1>3 DEF IInv, CallsOK
<1>5. \A l \in Keys : bucket'[l] = IF l = k THEN "stored" ELSE bucket[l]
  BY DEF StoreFile, IInv, TypeOK
<1>6. UNCHANGED <<tables, orphaned, broken>>
  BY DEF StoreFile
<1> HIDE DEF call
<1>7. \A o \in OrderIds : Born(o) => orders[o].key \in Keys \ {k}
  BY <1>1 DEF IInv, OrdersOK
<1>8. OrdersOK'
  BY <1>5, <1>6, <1>7 DEF IInv, OrdersOK, Born, tables
<1>9. \A d \in Calls : calls[d].at \in {"insert", "delete"} => calls[d].key \in Keys \ {k}
  BY <1>1 DEF IInv, CallsOK, CallOK, Carries
<1>10. CallOK(calls[c])'
  <2>1. calls'[c] = call
    BY <1>4
  <2>. QED BY <2>1, <1>1, <1>2, <1>5, <1>6, <1>7 DEF CallOK, Carries, Born, tables
<1>11. ASSUME NEW d \in Calls, d # c PROVE CallOK(calls[d])'
  <2>1. CallOK(calls[d]) /\ calls'[d] = calls[d]
    BY <1>4, <1>11 DEF IInv, CallsOK
  <2>. QED BY <2>1, <1>5, <1>6, <1>9 DEF CallOK, Born, tables
<1>12. \A d \in Calls : CallOK(calls[d])'
  BY <1>10, <1>11
<1>13. \A d, e \in Calls :
        calls'[d].at = "insert" /\ calls'[e].at = "insert" /\ calls'[d].key = calls'[e].key => d = e
  BY <1>2, <1>4, <1>9 DEF IInv, CallsOK
<1>14. calls' \in [Calls -> Call]
  BY <1>2, <1>3 DEF IInv, CallsOK
<1>15. TypeOK'
  BY <1>6, <1>14 DEF IInv, TypeOK, StoreFile, tables
<1>16. ListedFilesExist'
  <2> SUFFICES ASSUME NEW o \in OrderIds, LiveOrder(o)'
               PROVE  bucket'[orders'[o].key] = "stored" \/ BeingDeleted(o)' \/ o \in broken'
    BY DEF ListedFilesExist
  <2>1. bucket'[orders'[o].key] = bucket[orders[o].key] /\ LiveOrder(o)
    BY <1>5, <1>6, <1>7 DEF LiveOrder, Born, tables
  <2>2. BeingDeleted(o) => BeingDeleted(o)'
    BY <1>1, <1>4 DEF BeingDeleted
  <2>. QED BY <1>6, <2>1, <2>2 DEF FilesOK, ListedFilesExist
<1>17. DeletionsLeaveNoFile'
  <2> SUFFICES ASSUME NEW l \in Keys, bucket'[l] = "stored"
               PROVE  \/ Named(l)' \/ l \in orphaned'
                      \/ \E d \in Calls : calls'[d].at = "insert" /\ calls'[d].key = l
    BY DEF DeletionsLeaveNoFile
  <2>1. CASE l = k
    BY <1>2, <1>4, <2>1
  <2>2. CASE l # k
    BY <1>1, <1>4, <1>5, <1>6, <2>2 DEF FilesOK, DeletionsLeaveNoFile, Named, LiveOrder, tables
  <2>. QED BY <2>1, <2>2
<1>. QED BY <1>8, <1>12, <1>13, <1>14, <1>15, <1>16, <1>17 DEF IInv, CallsOK, FilesOK

LEMMA StoreFileFailsStep ==
  ASSUME IInv, FilesOK, NEW c \in Calls, NEW k \in Keys, StoreFileFails(c, k)
  PROVE  IInv' /\ FilesOK'
<1>1. calls[c].at = "store" /\ bucket[k] = "unused" /\ Return(c) /\ UNCHANGED <<tables, broken>>
      /\ orphaned' = orphaned \cup {k}
  BY DEF StoreFileFails
<1>2. \A d \in Calls : calls'[d] = IF d = c THEN Idle ELSE calls[d]
  BY <1>1 DEF Return, IInv, CallsOK
<1>3. \A l \in Keys : bucket'[l] = IF l = k THEN "stored" ELSE bucket[l]
  BY DEF StoreFileFails, IInv, TypeOK
<1>4. \A o \in OrderIds : Born(o) => orders[o].key \in Keys \ {k}
  BY <1>1 DEF IInv, OrdersOK
<1>5. OrdersOK'
  BY <1>1, <1>3, <1>4 DEF IInv, OrdersOK, Born, tables
<1>6. \A d \in Calls : calls[d].at \in {"insert", "delete"} => calls[d].key \in Keys \ {k}
  BY <1>1 DEF IInv, CallsOK, CallOK, Carries
<1>7. ASSUME NEW d \in Calls, d # c PROVE CallOK(calls[d])'
  <2>1. CallOK(calls[d]) /\ calls'[d] = calls[d]
    BY <1>2, <1>7 DEF IInv, CallsOK
  <2>. QED BY <2>1, <1>1, <1>3, <1>6 DEF CallOK, Born, tables
<1>8. CallsOK'
  BY <1>1, <1>7, CallEnds DEF IInv
<1>9. TypeOK'
  BY <1>1, <1>8 DEF IInv, TypeOK, CallsOK, StoreFileFails, tables
<1>10. ListedFilesExist'
  <2> SUFFICES ASSUME NEW o \in OrderIds, LiveOrder(o)'
               PROVE  bucket'[orders'[o].key] = "stored" \/ BeingDeleted(o)' \/ o \in broken'
    BY DEF ListedFilesExist
  <2>1. bucket'[orders'[o].key] = bucket[orders[o].key] /\ LiveOrder(o)
    BY <1>1, <1>3, <1>4 DEF LiveOrder, Born, tables
  <2>2. BeingDeleted(o) => BeingDeleted(o)'
    BY <1>1, <1>2 DEF BeingDeleted
  <2>. QED BY <1>1, <2>1, <2>2 DEF FilesOK, ListedFilesExist
<1>11. DeletionsLeaveNoFile'
  BY <1>1, <1>2, <1>3 DEF FilesOK, DeletionsLeaveNoFile, Named, LiveOrder, tables
<1>. QED BY <1>5, <1>8, <1>9, <1>10, <1>11 DEF IInv, FilesOK

LEMMA InsertOrderStep ==
  ASSUME IInv, FilesOK, NEW c \in Calls, NEW n \in OrderIds, InsertOrder(c, n)
  PROVE  IInv' /\ FilesOK'
<1> DEFINE call == calls[c]
<1>1. /\ call.at = "insert" /\ orders[n].state = "unborn" /\ Return(c)
      /\ UNCHANGED <<admins, projects, fields, values, bucket, broken>>
  BY DEF InsertOrder
<1>2. /\ call \in Call /\ call.key \in Keys /\ call.project \in Projects /\ call.admin \in Admins
      /\ bucket[call.key] = "stored" /\ \A o \in OrderIds : Born(o) => orders[o].key # call.key
  BY <1>1 DEF IInv, CallsOK, CallOK, Carries
<1>3. CASE ~ReferencesExist(call)
  BY <1>1, <1>2, <1>3, ReturnStep DEF InsertOrder, IInv, TypeOK, tables
<1>4. CASE ReferencesExist(call)
  <2>1. orders' = [orders EXCEPT ![n] = NewOrder(call)] /\ UNCHANGED orphaned
    BY <1>4 DEF InsertOrder
  <2>2. \A d \in Calls : calls'[d] = IF d = c THEN Idle ELSE calls[d]
    BY <1>1 DEF Return, IInv, CallsOK
  <2>3. NewOrder(call) \in OrderRow
    BY <1>2 DEF NewOrder, OrderRow, RowStates
  <2>4. /\ orders'[n].state = "live" /\ orders'[n].key = call.key /\ orders'[n].project = call.project
        /\ \A o \in OrderIds : o # n => orders'[o] = orders[o]
    BY <2>1 DEF NewOrder, IInv, TypeOK
  <2>5. OrdersOK'
    BY <1>1, <1>2, <2>4 DEF IInv, OrdersOK, Born
  <2>6. ASSUME NEW d \in Calls, d # c PROVE CallOK(calls[d])'
    <3>1. CallOK(calls[d]) /\ calls'[d] = calls[d]
      BY <2>2, <2>6 DEF IInv, CallsOK
    <3>2. calls[d].at = "insert" => calls[d].key # call.key
      BY <1>1, <2>6 DEF IInv, CallsOK
    <3>3. calls[d].at \in {"unstore", "delete", "answer"}
            => calls[d].order \in OrderIds /\ calls[d].order # n
      BY <1>1, <3>1 DEF CallOK, Carries, Born
    <3>. QED BY <1>1, <2>4, <3>1, <3>2, <3>3 DEF CallOK, Born
  <2>7. CallsOK'
    BY <1>1, <2>6, CallEnds DEF IInv
  <2>8. TypeOK'
    BY <1>1, <2>1, <2>3, <2>7 DEF IInv, TypeOK, CallsOK
  <2>9. ListedFilesExist'
    <3> SUFFICES ASSUME NEW o \in OrderIds, LiveOrder(o)'
                 PROVE  bucket'[orders'[o].key] = "stored" \/ BeingDeleted(o)' \/ o \in broken'
      BY DEF ListedFilesExist
    <3>1. CASE o = n
      BY <1>1, <1>2, <2>4, <3>1
    <3>2. CASE o # n
      <4>1. BeingDeleted(o) => BeingDeleted(o)'
        BY <1>1, <2>2 DEF BeingDeleted
      <4>. QED BY <1>1, <2>4, <3>2, <4>1 DEF FilesOK, ListedFilesExist, LiveOrder
    <3>. QED BY <3>1, <3>2
  <2>10. DeletionsLeaveNoFile'
    <3> SUFFICES ASSUME NEW l \in Keys, bucket'[l] = "stored"
                 PROVE  \/ Named(l)' \/ l \in orphaned'
                        \/ \E d \in Calls : calls'[d].at = "insert" /\ calls'[d].key = l
      BY DEF DeletionsLeaveNoFile
    <3>1. CASE l = call.key
      BY <2>4, <3>1 DEF Named, LiveOrder
    <3>2. CASE l # call.key
      <4>1. Named(l) => Named(l)'
        BY <1>1, <2>4 DEF Named, LiveOrder
      <4>. QED BY <1>1, <2>1, <2>2, <3>2, <4>1 DEF FilesOK, DeletionsLeaveNoFile
    <3>. QED BY <3>1, <3>2
  <2>. QED BY <2>5, <2>7, <2>8, <2>9, <2>10 DEF IInv, FilesOK
<1>. QED BY <1>3, <1>4

(* No other order has the deleted key, and no call is about to insert it. *)
LEMMA DeletedFile ==
  ASSUME IInv, FilesOK, NEW c \in Calls, calls[c].at = "unstore",
         bucket' = [bucket EXCEPT ![calls[c].key] = "deleted"], UNCHANGED <<tables, orphaned>>
  PROVE  /\ calls[c] \in Call /\ calls[c].key \in Keys /\ calls[c].order \in OrderIds
         /\ Born(calls[c].order) /\ orders[calls[c].order].key = calls[c].key
         /\ \A l \in Keys : bucket'[l] = IF l = calls[c].key THEN "deleted" ELSE bucket[l]
         /\ OrdersOK'
         /\ \A d \in Calls : d # c /\ calls'[d] = calls[d] => CallOK(calls[d])'
<1>1. /\ calls[c] \in Call /\ calls[c].key \in Keys /\ calls[c].order \in OrderIds
      /\ Born(calls[c].order) /\ orders[calls[c].order].key = calls[c].key
  BY DEF IInv, CallsOK, CallOK, Carries
<1>2. \A l \in Keys : bucket'[l] = IF l = calls[c].key THEN "deleted" ELSE bucket[l]
  BY DEF IInv, TypeOK
<1>3. OrdersOK'
  BY <1>1, <1>2 DEF IInv, OrdersOK, Born, tables
<1>4. ASSUME NEW d \in Calls, d # c, calls'[d] = calls[d] PROVE CallOK(calls[d])'
  <2>1. CallOK(calls[d])
    BY DEF IInv, CallsOK
  <2>2. calls[d].at \in {"insert", "delete"} => calls[d].key \in Keys
    BY <2>1 DEF CallOK, Carries
  <2>. QED BY <1>1, <1>2, <1>4, <2>1, <2>2 DEF CallOK, Born, tables
<1>. QED BY <1>1, <1>2, <1>3, <1>4

LEMMA DeleteFileStep ==
  ASSUME IInv, FilesOK, NEW c \in Calls, DeleteFile(c)
  PROVE  IInv' /\ FilesOK'
<1>1. /\ calls[c].at = "unstore" /\ bucket' = [bucket EXCEPT ![calls[c].key] = "deleted"]
      /\ UNCHANGED <<tables, orphaned, broken>>
  BY DEF DeleteFile
<1>2. /\ calls[c] \in Call /\ calls[c].key \in Keys /\ calls[c].order \in OrderIds
      /\ Born(calls[c].order) /\ orders[calls[c].order].key = calls[c].key
      /\ \A l \in Keys : bucket'[l] = IF l = calls[c].key THEN "deleted" ELSE bucket[l]
      /\ OrdersOK'
  BY <1>1, DeletedFile
<1> DEFINE call == [calls[c] EXCEPT !.at = "delete"]
<1>3. /\ call \in Call /\ call.at = "delete" /\ call.order = calls[c].order
      /\ call.key = calls[c].key
  BY <1>2 DEF Call, Steps
<1>4. calls' = [calls EXCEPT ![c] = call]
  BY DEF DeleteFile, GoOn, IInv, CallsOK
<1>5. \A d \in Calls : calls'[d] = IF d = c THEN call ELSE calls[d]
  BY <1>4 DEF IInv, CallsOK
<1>6. calls' \in [Calls -> Call]
  BY <1>3, <1>4 DEF IInv, CallsOK
<1> HIDE DEF call
<1>7. CallOK(calls[c])'
  <2>1. calls'[c] = call
    BY <1>5
  <2>. QED BY <2>1, <1>1, <1>2, <1>3 DEF CallOK, Carries, Born, tables
<1>8. \A d \in Calls : CallOK(calls[d])'
  BY <1>1, <1>5, <1>7, DeletedFile
<1>9. \A d, e \in Calls :
        calls'[d].at = "insert" /\ calls'[e].at = "insert" /\ calls'[d].key = calls'[e].key => d = e
  BY <1>3, <1>5 DEF IInv, CallsOK
<1>10. TypeOK'
  BY <1>1, <1>6 DEF IInv, TypeOK, tables
<1>11. ListedFilesExist'
  <2> SUFFICES ASSUME NEW o \in OrderIds, LiveOrder(o)'
               PROVE  bucket'[orders'[o].key] = "stored" \/ BeingDeleted(o)' \/ o \in broken'
    BY DEF ListedFilesExist
  <2>1. CASE o = calls[c].order
    BY <1>3, <1>5, <2>1 DEF BeingDeleted
  <2>2. CASE o # calls[c].order
    <3>1. LiveOrder(o) /\ orders' = orders
      BY <1>1 DEF LiveOrder, tables
    <3>2. bucket'[orders'[o].key] = bucket[orders[o].key]
      BY <1>2, <2>2, <3>1 DEF LiveOrder, Born, IInv, OrdersOK
    <3>3. BeingDeleted(o) => BeingDeleted(o)'
      BY <1>1, <1>5 DEF BeingDeleted
    <3>. QED BY <1>1, <3>1, <3>2, <3>3 DEF FilesOK, ListedFilesExist
  <2>. QED BY <2>1, <2>2
<1>12. DeletionsLeaveNoFile'
  BY <1>1, <1>2, <1>5 DEF FilesOK, DeletionsLeaveNoFile, Named, LiveOrder, tables
<1>. QED BY <1>2, <1>6, <1>8, <1>9, <1>10, <1>11, <1>12 DEF IInv, CallsOK, FilesOK

LEMMA DeleteFileFailsStep ==
  ASSUME IInv, FilesOK, NEW c \in Calls, DeleteFileFails(c)
  PROVE  IInv' /\ FilesOK'
<1>1. /\ calls[c].at = "unstore" /\ bucket' = [bucket EXCEPT ![calls[c].key] = "deleted"]
      /\ UNCHANGED <<tables, orphaned>> /\ Return(c) /\ broken' = broken \cup {calls[c].order}
  BY DEF DeleteFileFails
<1>2. /\ calls[c].key \in Keys /\ calls[c].order \in OrderIds
      /\ Born(calls[c].order) /\ orders[calls[c].order].key = calls[c].key
      /\ \A l \in Keys : bucket'[l] = IF l = calls[c].key THEN "deleted" ELSE bucket[l]
      /\ OrdersOK'
  BY <1>1, DeletedFile
<1>3. \A d \in Calls : calls'[d] = IF d = c THEN Idle ELSE calls[d]
  BY <1>1 DEF Return, IInv, CallsOK
<1>4. CallsOK'
  <2>1. \A d \in Calls : d # c => CallOK(calls[d])'
    BY <1>1, <1>3, DeletedFile
  <2>. QED BY <1>1, <2>1, CallEnds DEF IInv
<1>5. TypeOK'
  BY <1>1, <1>2, <1>4 DEF IInv, TypeOK, CallsOK, tables
<1>6. ListedFilesExist'
  <2> SUFFICES ASSUME NEW o \in OrderIds, LiveOrder(o)'
               PROVE  bucket'[orders'[o].key] = "stored" \/ BeingDeleted(o)' \/ o \in broken'
    BY DEF ListedFilesExist
  <2>1. CASE o = calls[c].order
    BY <1>1, <2>1
  <2>2. CASE o # calls[c].order
    <3>1. LiveOrder(o) /\ orders' = orders
      BY <1>1 DEF LiveOrder, tables
    <3>2. bucket'[orders'[o].key] = bucket[orders[o].key]
      BY <1>2, <2>2, <3>1 DEF LiveOrder, Born, IInv, OrdersOK
    <3>3. BeingDeleted(o) => BeingDeleted(o)'
      BY <1>1, <1>3 DEF BeingDeleted
    <3>. QED BY <1>1, <3>1, <3>2, <3>3 DEF FilesOK, ListedFilesExist
  <2>. QED BY <2>1, <2>2
<1>7. DeletionsLeaveNoFile'
  BY <1>1, <1>2, <1>3 DEF FilesOK, DeletionsLeaveNoFile, Named, LiveOrder, tables
<1>. QED BY <1>2, <1>4, <1>5, <1>6, <1>7 DEF IInv, FilesOK

(* Rows that go keep their key and project. *)
LEMMA OrdersGo ==
  ASSUME IInv, NEW lost \in SUBSET OrderIds, \A o \in lost : Born(o), UNCHANGED bucket,
         orders' = [o \in OrderIds |-> IF o \in lost THEN [orders[o] EXCEPT !.state = "gone"]
                                                     ELSE orders[o]]
  PROVE  /\ orders' \in [OrderIds -> OrderRow]
         /\ \A o \in OrderIds : /\ Born(o)' = Born(o) /\ orders'[o].key = orders[o].key
                                /\ orders'[o].project = orders[o].project
                                /\ LiveOrder(o)' => o \notin lost
                                /\ o \notin lost => orders'[o] = orders[o]
         /\ OrdersOK'
         /\ \A d \in Calls : calls'[d] = calls[d] => CallOK(calls[d])'
<1>1. \A row \in OrderRow : [row EXCEPT !.state = "gone"] \in OrderRow
  BY DEF OrderRow, RowStates
<1>2. orders' \in [OrderIds -> OrderRow]
  BY <1>1 DEF IInv, TypeOK
<1>3. ASSUME NEW o \in OrderIds
      PROVE  /\ Born(o)' = Born(o) /\ orders'[o].key = orders[o].key
             /\ orders'[o].project = orders[o].project
             /\ LiveOrder(o)' => o \notin lost
             /\ o \notin lost => orders'[o] = orders[o]
  <2>1. CASE o \in lost
    <3>1. orders'[o] = [orders[o] EXCEPT !.state = "gone"] /\ orders[o] \in OrderRow
      BY <2>1 DEF IInv, TypeOK
    <3>2. /\ orders'[o].state = "gone" /\ orders'[o].key = orders[o].key
          /\ orders'[o].project = orders[o].project
      BY <3>1 DEF OrderRow
    <3>. QED BY <2>1, <3>2 DEF Born, LiveOrder
  <2>2. CASE o \notin lost
    <3>1. orders'[o] = orders[o]
      BY <2>2
    <3>. QED BY <2>2, <3>1 DEF Born
  <2>. QED BY <2>1, <2>2
<1>4. OrdersOK'
  <2>1. OrdersOK
    BY DEF IInv
  <2>. QED BY <1>3, <2>1 DEF OrdersOK, Born
<1>5. ASSUME NEW d \in Calls, calls'[d] = calls[d] PROVE CallOK(calls[d])'
  <2>1. CallOK(calls[d])
    BY DEF IInv, CallsOK
  <2>2. calls[d].at \in {"unstore", "delete", "answer"} => calls[d].order \in OrderIds
    BY <2>1 DEF CallOK, Carries
  <2>. QED BY <1>3, <1>5, <2>1, <2>2 DEF CallOK
<1>. QED BY <1>2, <1>3, <1>4, <1>5

LEMMA DeleteRowStep ==
  ASSUME IInv, FilesOK, NEW c \in Calls, DeleteRow(c)
  PROVE  IInv' /\ FilesOK'
<1> DEFINE n == calls[c].order
<1>1. /\ calls[c].at = "delete" /\ orders' = [orders EXCEPT ![n].state = "gone"] /\ Return(c)
      /\ UNCHANGED <<admins, projects, fields, values, bucket, orphaned, broken>>
  BY DEF DeleteRow
<1>2. /\ n \in OrderIds /\ Born(n) /\ orders[n].key = calls[c].key
      /\ bucket[calls[c].key] = "deleted"
  BY <1>1 DEF IInv, CallsOK, CallOK, Carries
<1>3. orders' = [o \in OrderIds |-> IF o \in {n} THEN [orders[o] EXCEPT !.state = "gone"]
                                                 ELSE orders[o]]
  BY <1>1, <1>2 DEF IInv, TypeOK
<1>4. /\ orders' \in [OrderIds -> OrderRow] /\ OrdersOK'
      /\ \A o \in OrderIds : /\ LiveOrder(o)' => o # n
                             /\ o # n => orders'[o] = orders[o]
      /\ \A d \in Calls : calls'[d] = calls[d] => CallOK(calls[d])'
  <2>1. {n} \in SUBSET OrderIds /\ \A o \in {n} : Born(o)
    BY <1>2
  <2> HIDE DEF n
  <2>2. \A o \in OrderIds : o # n => o \notin {n}
    OBVIOUS
  <2>. QED BY <1>1, <1>3, <2>1, <2>2, OrdersGo
<1>5. \A d \in Calls : calls'[d] = IF d = c THEN Idle ELSE calls[d]
  BY <1>1 DEF Return, IInv, CallsOK
<1>6. CallsOK'
  BY <1>1, <1>4, <1>5, CallEnds DEF IInv
<1>7. TypeOK'
  BY <1>1, <1>4, <1>6 DEF IInv, TypeOK, CallsOK
<1>8. ListedFilesExist'
  <2> SUFFICES ASSUME NEW o \in OrderIds, LiveOrder(o)'
               PROVE  bucket'[orders'[o].key] = "stored" \/ BeingDeleted(o)' \/ o \in broken'
    BY DEF ListedFilesExist
  <2>1. o # n /\ orders'[o] = orders[o] /\ LiveOrder(o)
    BY <1>4 DEF LiveOrder
  <2>2. BeingDeleted(o) => BeingDeleted(o)'
    BY <1>5, <2>1 DEF BeingDeleted
  <2>. QED BY <1>1, <2>1, <2>2 DEF FilesOK, ListedFilesExist
<1>9. DeletionsLeaveNoFile'
  <2> SUFFICES ASSUME NEW l \in Keys, bucket'[l] = "stored"
               PROVE  \/ Named(l)' \/ l \in orphaned'
                      \/ \E d \in Calls : calls'[d].at = "insert" /\ calls'[d].key = l
    BY DEF DeletionsLeaveNoFile
  <2>1. Named(l) => Named(l)'
    BY <1>1, <1>2, <1>4 DEF Named, LiveOrder
  <2>. QED BY <1>1, <1>5, <2>1 DEF FilesOK, DeletionsLeaveNoFile
<1>. QED BY <1>4, <1>6, <1>7, <1>8, <1>9 DEF IInv, FilesOK

LEMMA DeleteFieldsType ==
  ASSUME TypeOK, NEW F, DeleteFields(F)
  PROVE  fields' \in [FieldIds -> FieldRow] /\ values' \in [FieldIds -> Projects \cup {None}]
<1>1. \A row \in FieldRow : [row EXCEPT !.state = "gone"] \in FieldRow
  BY DEF FieldRow, RowStates
<1>. QED BY <1>1 DEF TypeOK, DeleteFields

LEMMA CascadeStep ==
  ASSUME IInv, FilesOK, NEW P \in SUBSET Projects, NEW D \in SUBSET Admins, Cascade(P, D)
  PROVE  IInv' /\ FilesOK'
<1> DEFINE lost == {o \in OrderIds : /\ LiveOrder(o)
                                     /\ orders[o].project \in P \/ orders[o].uploader \in D}
<1>1. /\ projects' = projects \ P /\ admins' = admins \ D
      /\ orders' = [o \in OrderIds |-> IF o \in lost THEN [orders[o] EXCEPT !.state = "gone"]
                                                     ELSE orders[o]]
      /\ orphaned' = orphaned \cup {orders[o].key : o \in lost}
      /\ UNCHANGED <<bucket, calls, broken>>
  BY DEF Cascade
<1>2. lost \in SUBSET OrderIds /\ \A o \in lost : Born(o)
  BY DEF LiveOrder, Born
<1>3. \A o \in lost : orders[o].key \in Keys
  BY <1>2 DEF IInv, OrdersOK
<1> HIDE DEF lost
<1>4. /\ orders' \in [OrderIds -> OrderRow] /\ OrdersOK'
      /\ \A o \in OrderIds : /\ LiveOrder(o)' => o \notin lost
                             /\ o \notin lost => orders'[o] = orders[o]
      /\ \A d \in Calls : calls'[d] = calls[d] => CallOK(calls[d])'
  BY <1>1, <1>2, OrdersGo
<1>5. CallsOK'
  BY <1>1, <1>4 DEF IInv, CallsOK
<1>6. fields' \in [FieldIds -> FieldRow] /\ values' \in [FieldIds -> Projects \cup {None}]
  BY DeleteFieldsType DEF Cascade, IInv
<1>7. TypeOK'
  BY <1>1, <1>3, <1>4, <1>5, <1>6 DEF IInv, TypeOK, CallsOK
<1>8. ListedFilesExist'
  BY <1>1, <1>4 DEF FilesOK, ListedFilesExist, LiveOrder, BeingDeleted
<1>9. DeletionsLeaveNoFile'
  <2> SUFFICES ASSUME NEW l \in Keys, bucket'[l] = "stored"
               PROVE  \/ Named(l)' \/ l \in orphaned'
                      \/ \E d \in Calls : calls'[d].at = "insert" /\ calls'[d].key = l
    BY DEF DeletionsLeaveNoFile
  <2>1. Named(l) => Named(l)' \/ l \in orphaned'
    BY <1>1, <1>4 DEF Named, LiveOrder
  <2>. QED BY <1>1, <2>1 DEF FilesOK, DeletionsLeaveNoFile
<1>. QED BY <1>4, <1>5, <1>7, <1>8, <1>9 DEF IInv, FilesOK

(* Steps on fields touch no file. *)
LEMMA FieldStep ==
  ASSUME IInv, FilesOK, UNCHANGED <<admins, projects, orders, bucket, calls, orphaned, broken>>,
         fields' \in [FieldIds -> FieldRow], values' \in [FieldIds -> Projects \cup {None}]
  PROVE  IInv' /\ FilesOK'
<1>1. OrdersOK' /\ CallsOK'
  BY StoresKept DEF IInv, CallsOK
<1>2. TypeOK'
  BY DEF IInv, TypeOK
<1>3. FilesOK'
  BY DEF FilesOK, ListedFilesExist, DeletionsLeaveNoFile, LiveOrder, BeingDeleted, Named
<1>. QED BY <1>1, <1>2, <1>3 DEF IInv

LEMMA InvStep == IInv /\ FilesOK /\ [Next]_vars => IInv' /\ FilesOK'
<1> SUFFICES ASSUME IInv, FilesOK, [Next]_vars PROVE IInv' /\ FilesOK'
  OBVIOUS
<1>1. CASE UNCHANGED vars
  BY <1>1, FieldStep DEF vars, tables, IInv, TypeOK
<1>2. ASSUME NEW c \in Calls, CallNext(c) PROVE IInv' /\ FilesOK'
  <2>1. CASE DeleteRow(c) \/ DeleteFile(c) \/ DeleteFileFails(c) \/ FindWorkOrder(c) \/ Fail(c)
    BY <2>1, DeleteRowStep, DeleteFileStep, DeleteFileFailsStep, FindWorkOrderStep, FailStep
  <2>2. CASE AnswerLink(c)
    BY <2>2, ReturnStep DEF AnswerLink, IInv, TypeOK
  <2>3. CASE \E k \in Keys : StoreFile(c, k) \/ StoreFileFails(c, k)
    BY <2>3, StoreFileStep, StoreFileFailsStep
  <2>4. CASE \E o \in OrderIds : InsertOrder(c, o) \/ DeleteWorkOrder(c, o)
    BY <2>4, InsertOrderStep, DeleteWorkOrderStep
  <2>5. CASE \E a \in Admins, p \in Projects : UploadWorkOrder(c, a, p)
    BY <2>5, UploadWorkOrderStep
  <2>6. CASE \E p \in Projects, o \in OrderIds : ViewWorkOrder(c, p, o)
    BY <2>6, ViewWorkOrderStep
  <2>. QED BY <1>2, <2>1, <2>2, <2>3, <2>4, <2>5, <2>6 DEF CallNext
<1>3. ASSUME NEW p \in Projects, NEW f \in FieldIds, CreateField(p, f) PROVE IInv' /\ FilesOK'
  <2>1. [state |-> "live", project |-> p] \in FieldRow
    BY DEF FieldRow, RowStates
  <2>. QED BY <1>3, <2>1, FieldStep DEF CreateField, IInv, TypeOK
<1>4. ASSUME NEW p \in Projects, NEW f \in FieldIds, SetFieldValue(p, f) PROVE IInv' /\ FilesOK'
  BY <1>4, FieldStep DEF SetFieldValue, IInv, TypeOK
<1>5. ASSUME NEW f \in FieldIds, DeleteField(f) PROVE IInv' /\ FilesOK'
  BY <1>5, FieldStep, DeleteFieldsType DEF DeleteField, IInv
<1>6. ASSUME NEW p \in Projects, RemoveProject(p) PROVE IInv' /\ FilesOK'
  BY <1>6, CascadeStep DEF RemoveProject
<1>7. ASSUME NEW a \in Admins, RemoveAdmin(a) PROVE IInv' /\ FilesOK'
  <2>1. {p \in projects : CreatedBy[p] = a} \in SUBSET Projects /\ {a} \in SUBSET Admins
    BY DEF IInv, TypeOK
  <2>. QED BY <1>7, <2>1, CascadeStep DEF RemoveAdmin
<1>. QED BY <1>1, <1>2, <1>3, <1>4, <1>5, <1>6, <1>7 DEF Next

-----------------------------------------------------------------------------
(* Type correctness, also of what the handlers in flight carry.            *)
THEOREM TypeCorrect == Spec => []TypeOK
<1>1. IInv => TypeOK
  BY DEF IInv
<1>2. Init => IInv /\ FilesOK
  BY InitOK DEF FilesOK
<1>. QED BY <1>1, <1>2, InvStep, PTL DEF Spec

(* A listed work order has its file, unless its own deletion is at work or *)
(* has failed.                                                             *)
THEOREM ListedFilesAlwaysExist == Spec => []ListedFilesExist
<1>1. FilesOK => ListedFilesExist
  BY DEF FilesOK
<1>2. Init => IInv /\ FilesOK
  BY InitOK DEF FilesOK
<1>. QED BY <1>1, <1>2, InvStep, PTL DEF Spec

(* A deletion, failing anywhere, never loses track of a file.              *)
THEOREM DeletionsLoseNoFile == Spec => []DeletionsLeaveNoFile
<1>1. FilesOK => DeletionsLeaveNoFile
  BY DEF FilesOK
<1>2. Init => IInv /\ FilesOK
  BY InitOK DEF FilesOK
<1>. QED BY <1>1, <1>2, InvStep, PTL DEF Spec

(* A link belongs to the project that was checked for it.                  *)
THEOREM LinksBelongToProject == Spec => []LinksStayInProject
<1>1. IInv => LinksStayInProject
  <2> SUFFICES ASSUME IInv, NEW c \in Calls, calls[c].at = "answer"
               PROVE  \E o \in OrderIds : /\ orders[o].key = calls[c].key
                                          /\ orders[o].project = calls[c].project
    BY DEF LinksStayInProject
  <2>. QED BY DEF IInv, CallsOK, CallOK, Carries
<1>2. Init => IInv /\ FilesOK
  BY InitOK DEF FilesOK
<1>. QED BY <1>1, <1>2, InvStep, PTL DEF Spec

-----------------------------------------------------------------------------
(* Rows point to rows that exist: an insert checks its references, and a   *)
(* removal takes along what points to the removed row.                     *)
LEMMA DanglesStep == TypeOK /\ NothingDangles /\ [Next]_vars => NothingDangles'
<1> SUFFICES ASSUME TypeOK, NothingDangles, [Next]_vars PROVE NothingDangles'
  OBVIOUS
<1> USE DEF LiveOrder, LiveField
<1>1. CASE UNCHANGED tables
  BY <1>1 DEF tables, NothingDangles
<1>2. ASSUME NEW c \in Calls, NEW n \in OrderIds, InsertOrder(c, n) PROVE NothingDangles'
  <2>1. \A o \in OrderIds : o # n => orders'[o] = orders[o]
    BY <1>2 DEF InsertOrder, TypeOK
  <2>2. orders'[n] = orders[n] \/ (ReferencesExist(calls[c]) /\ orders'[n] = NewOrder(calls[c]))
    <3>1. \/ UNCHANGED orders
          \/ ReferencesExist(calls[c]) /\ orders' = [orders EXCEPT ![n] = NewOrder(calls[c])]
      BY <1>2 DEF InsertOrder
    <3>. QED BY <3>1 DEF TypeOK
  <2>3. UNCHANGED <<admins, projects, fields, values>>
    BY <1>2 DEF InsertOrder
  <2>. QED BY <2>1, <2>2, <2>3 DEF NothingDangles, NewOrder, ReferencesExist
<1>3. ASSUME NEW c \in Calls, DeleteRow(c) PROVE NothingDangles'
  <2>1. \A o \in OrderIds : orders'[o].state = "live" => orders'[o] = orders[o]
    BY <1>3 DEF DeleteRow, TypeOK, OrderRow
  <2>2. UNCHANGED <<admins, projects, fields, values>>
    BY <1>3 DEF DeleteRow
  <2>. QED BY <2>1, <2>2 DEF NothingDangles
<1>4. ASSUME NEW p \in Projects, NEW f \in FieldIds, CreateField(p, f) PROVE NothingDangles'
  <2>1. /\ p \in projects /\ fields[f].state = "unborn"
        /\ \A g \in FieldIds : fields'[g] = IF g = f THEN [state |-> "live", project |-> p] ELSE fields[g]
        /\ UNCHANGED <<admins, projects, orders, values>>
    BY <1>4 DEF CreateField, TypeOK
  <2>. QED BY <2>1 DEF NothingDangles
<1>5. ASSUME NEW p \in Projects, NEW f \in FieldIds, SetFieldValue(p, f) PROVE NothingDangles'
  <2>1. /\ p \in projects /\ fields[f].state = "live"
        /\ \A g \in FieldIds : values'[g] = values[g] \/ (g = f /\ values'[g] = p)
        /\ UNCHANGED <<admins, projects, orders, fields>>
    <3>1. values' = [values EXCEPT ![f] = IF values[f] = None THEN p ELSE values[f]]
      BY <1>5 DEF SetFieldValue
    <3>2. \A g \in FieldIds : values'[g] = values[g] \/ (g = f /\ values'[g] = p)
      BY <3>1 DEF TypeOK
    <3>. QED BY <1>5, <3>2 DEF SetFieldValue
  <2>. QED BY <2>1 DEF NothingDangles
<1>6. ASSUME NEW F, DeleteFields(F)
      PROVE  /\ \A f \in FieldIds : fields'[f].state = "live" => f \notin F /\ fields'[f] = fields[f]
             /\ \A f \in FieldIds : values'[f] # None =>
                  f \notin F /\ values'[f] = values[f] /\ values[f] \in projects' /\ fields'[f] = fields[f]
  BY <1>6 DEF DeleteFields, TypeOK, FieldRow
<1>7. ASSUME NEW f \in FieldIds, DeleteField(f) PROVE NothingDangles'
  BY <1>6, <1>7 DEF DeleteField, NothingDangles
<1>8. ASSUME NEW P, NEW D, Cascade(P, D) PROVE NothingDangles'
  <2> DEFINE F == {f \in FieldIds : LiveField(f) /\ fields[f].project \in P}
  <2>1. projects' = projects \ P /\ admins' = admins \ D /\ DeleteFields(F)
    BY <1>8 DEF Cascade
  <2>2. ASSUME NEW o \in OrderIds, orders'[o].state = "live"
        PROVE  orders'[o].project \in projects' /\ orders'[o].uploader \in admins'
    <3> DEFINE lost == {n \in OrderIds : /\ LiveOrder(n)
                                         /\ orders[n].project \in P \/ orders[n].uploader \in D}
    <3>1. orders'[o] = IF o \in lost THEN [orders[o] EXCEPT !.state = "gone"] ELSE orders[o]
      BY <1>8 DEF Cascade
    <3>2. o \notin lost
      BY <2>2, <3>1 DEF TypeOK, OrderRow
    <3>. QED BY <2>1, <2>2, <3>1, <3>2 DEF NothingDangles
  <2>3. ASSUME NEW f \in FieldIds, fields'[f].state = "live"
        PROVE  fields'[f].project \in projects'
    BY <1>6, <2>1, <2>3 DEF NothingDangles
  <2>4. ASSUME NEW f \in FieldIds, values'[f] # None
        PROVE  fields'[f].state = "live" /\ values'[f] \in projects'
    BY <1>6, <2>1, <2>4 DEF NothingDangles
  <2>. QED BY <2>2, <2>3, <2>4 DEF NothingDangles
<1>9. ASSUME NEW c \in Calls, CallNext(c)
      PROVE  UNCHANGED tables \/ DeleteRow(c) \/ \E o \in OrderIds : InsertOrder(c, o)
  BY <1>9 DEF CallNext, UploadWorkOrder, StoreFile, StoreFileFails, DeleteWorkOrder, DeleteFile,
              DeleteFileFails, ViewWorkOrder, FindWorkOrder, AnswerLink, Fail
<1>10. ASSUME NEW c \in Calls, CallNext(c) PROVE NothingDangles'
  BY <1>1, <1>2, <1>3, <1>9, <1>10
<1>11. ASSUME NEW p \in Projects, RemoveProject(p) PROVE NothingDangles'
  BY <1>8, <1>11 DEF RemoveProject
<1>12. ASSUME NEW a \in Admins, RemoveAdmin(a) PROVE NothingDangles'
  BY <1>8, <1>12 DEF RemoveAdmin
<1>. QED BY <1>1, <1>4, <1>5, <1>7, <1>10, <1>11, <1>12 DEF Next, vars

(* Every order, field and value points to rows that exist, however inserts *)
(* and removals overlap.                                                   *)
THEOREM ContentsPointSomewhere == Spec => []NothingDangles
<1>1. IInv => TypeOK
  BY DEF IInv
<1>2. Init => IInv /\ FilesOK
  BY InitOK DEF FilesOK
<1>. QED BY <1>1, <1>2, InitOK, InvStep, DanglesStep, PTL DEF Spec
=============================================================================
