--------------------------- MODULE JetStreamPages ---------------------------
(* The pages of the JetStream module: the list of streams, a stream, and    *)
(* below it its messages or its consumers (components/jetstream). A handler *)
(* is a record of what it does; ResourceViews runs them.                    *)
EXTENDS UseAsync, FiniteSets

(* on: the page the button is on; how: asked first ("confirm"), through a   *)
(* dialog with a form, or at once; does: what the request makes of the      *)
(* resource; next: what the page does with a success.                       *)
H(page, id, how, does, next) == [page |-> page, id |-> id, how |-> how, does |-> does, next |-> next]

CreateStream  == H("list", "create", "form", "create", {"reload list", "select"})
RestoreStream == H("list", "restore", "click", "create", {"reload list", "select"})

EditStream      == H("detail", "edit", "form", "change", {"set detail", "bump"})
DuplicateStream == H("detail", "duplicate", "form", "create", {"bump", "select"})
PurgeStream     == H("detail", "purge", "confirm", "fill", {"reload detail"})
DeleteStream    == H("detail", "delete", "confirm", "delete", {"deselect", "bump"})
SealStream      == H("detail", "seal", "confirm", "seal", {"set detail", "bump"})
StepDown        == H("detail", "step down", "click", "nothing", {"reload detail later"})
RemovePeer      == H("detail", "remove peer", "confirm", "change", {"reload detail later"})

DeleteMessage == H("part", "delete message", "confirm", "fill", {"reload part", "reload detail"})

TogglePause    == H("part", "pause", "click", "fill", {"reload part", "reload detail"})
DeleteConsumer == H("part", "delete consumer", "confirm", "fill", {"reload part", "reload detail"})
SaveConsumer   == H("part", "save consumer", "form", "fill", {"reload part", "reload detail"})
FetchNext      == H("part", "fetch", "click", "fill", {"reload part"})
Decide         == H("part", "decide", "click", "fill", {"reload part"})

-----------------------------------------------------------------------------
(* Which of them a page offers, given what it shows. *)

StreamListOffers(v, mayWrite) == IF mayWrite THEN {CreateStream, RestoreStream} ELSE {}
StreamListShows(v) == Body(v)

StreamDetailShows(v) == BodyKeepingData(v)
StreamActions(stream, mayWrite) ==
    IF ~mayWrite THEN {}
    ELSE {EditStream, DuplicateStream, PurgeStream, DeleteStream} \cup
         IF stream.sealed THEN {} ELSE {SealStream}
StreamClusterActions(stream, mayWrite) == IF mayWrite THEN {StepDown, RemovePeer} ELSE {}

StreamMessagesShows(v) == Body(v)
StreamMessagesOffers(v, mayWrite) ==
    IF mayWrite /\ StreamMessagesShows(v) = "data" THEN {DeleteMessage} ELSE {}

ConsumerListShows(v) == Body(v)
ConsumerListOffers(v, mayWrite) ==
    IF ~mayWrite THEN {}
    ELSE {SaveConsumer} \cup
         IF ConsumerListShows(v) = "data" THEN {TogglePause, DeleteConsumer, FetchNext, Decide} ELSE {}

(* The tabs below a stream; the overview loads nothing of its own. *)
StreamTabs == {"overview", "messages", "consumers"}
StreamPart(tab) == tab # "overview"
PartShows(tab, v) == IF tab = "messages" THEN StreamMessagesShows(v) ELSE ConsumerListShows(v)
PartOffers(tab, v, mayWrite) ==
    CASE tab = "messages" -> StreamMessagesOffers(v, mayWrite)
      [] tab = "consumers" -> ConsumerListOffers(v, mayWrite)
      [] OTHER -> {}
=============================================================================
