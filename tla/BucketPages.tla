----------------------------- MODULE BucketPages -----------------------------
(* The pages of the KV and of the object store module: the list of buckets  *)
(* or stores, what is in the selected one, and below it an entry, or the    *)
(* list of stores once more, for the seal (components/kv, objectstore).     *)
EXTENDS JetStreamPages

CreateBucket == H("list", "create bucket", "form", "create", {"reload list", "select"})
EditBucket   == H("detail", "edit bucket", "form", "change", {"bump"})
DeleteBucket == H("detail", "delete bucket", "confirm", "delete", {"deselect", "bump"})
PutKey       == H("detail", "put key", "form", "fill", {"reload detail", "open part", "reload part"})
DeleteKey    == H("detail", "delete key", "confirm", "fill", {"close part", "reload detail"})
PurgeKey     == H("part", "purge key", "confirm", "fill", {"close part", "reload detail"})
DeleteCheckedKeys == H("detail", "delete checked", "confirm", "fill", {"close part", "reload detail"})
SaveEntry    == H("part", "save entry", "click", "fill", {"reload part", "reload detail"})

KvBucketListShows(v) == Body(v)
KvBucketListOffers(mayWrite) == IF mayWrite THEN {CreateBucket} ELSE {}
KvKeyListShows(v) == Body(v)
KvKeyListOffers(v, mayWrite) ==
    IF mayWrite /\ KvKeyListShows(v) = "data" THEN {DeleteKey, DeleteCheckedKeys} ELSE {}
KvHeaderOffers(mayWrite) == IF mayWrite THEN {PutKey, EditBucket, DeleteBucket} ELSE {}
KvEntryShows(v) == Body(v)
KvEntryPanelOffers(v, mayWrite) ==
    IF mayWrite /\ KvEntryShows(v) = "data" THEN {SaveEntry, PurgeKey} ELSE {}

CreateStore == H("list", "create store", "form", "create", {"reload list", "select"})
Upload      == H("detail", "upload", "click", "fill", {"reload detail", "bump"})
DeleteObject == H("detail", "delete object", "confirm", "fill", {"reload detail", "bump"})
DeleteCheckedObjects == H("detail", "delete checked objects", "confirm", "fill", {"reload detail", "bump"})
SealStore   == H("detail", "seal store", "confirm", "seal", {"reload part", "bump"})
DeleteStore == H("detail", "delete store", "confirm", "delete", {"deselect", "bump"})

ObjStoreListShows(v) == Body(v)
ObjStoreListOffers(mayWrite) == IF mayWrite THEN {CreateStore} ELSE {}
ObjStoreShows(v) == Body(v)

(* What is dropped on the page is uploaded whatever the header offers. *)
ObjStoreHeaderOffers(mayWrite, sealed) ==
    {Upload} \cup IF ~mayWrite THEN {} ELSE {DeleteStore} \cup IF sealed THEN {} ELSE {SealStore}
ObjectRowsOffer(v, mayWrite, sealed) ==
    IF ~mayWrite \/ ObjStoreShows(v) # "data" THEN {}
    ELSE {DeleteObject} \cup IF sealed THEN {} ELSE {DeleteCheckedObjects}
=============================================================================
