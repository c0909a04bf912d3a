----------------------------- MODULE PublishMap -----------------------------
(***************************************************************************)
(* A session's view of the shared record SIMAPI.DAT (simapi-sys/src/       *)
(* session.rs): a descriptor and an address, which belong together only as *)
(* long as the same hand changes both.  The C library, outside this        *)
(* repository, is given the view at every detection, mapping and clearing, *)
(* and may close it and open it again; a game's mapper there also copies   *)
(* each frame to the address it finds.  So an address that cannot be       *)
(* written is hidden from a mapper, and put back over what it has left.    *)
(***************************************************************************)
EXTENDS Naturals

VARIABLES
    view,           \* SimMap.fd and addr
    faulted         \* a frame was copied to where nothing can be written

record == <<view, faulted>>

\* The descriptor is closed, or allows reading or also writing.  The address is
\* none, or that of a mapping of a file opened read-only ("shut"), which nothing
\* makes writable, or of one opened read-write, for reading ("shared") or for
\* both ("open").
View(fd, addr) == [fd |-> fd, addr |-> addr]
NoView == View("none", "none")
Fresh == {NoView, View("read", "shut"), View("write", "shared"), View("write", "open")}

PublishTypeOK ==
    /\ view \in [fd : {"none", "read", "write"}, addr : {"none", "shut", "shared", "open"}]
    /\ faulted \in BOOLEAN

\* What the library leaves of a view that it is given.
Left(v) == {v} \cup Fresh

\* Fault for CopiesWhereWritable: the descriptor is believed.
FaultReadWrite(v) == v.fd = "write" /\ v.addr # "none"
\* publish_map_is_read_write: the descriptor allows it, and mprotect at the
\* address itself does not fail; then the view is open.
ReadWrite(v) == v.fd = "write" /\ v.addr \in {"shared", "open"}
Unprotected(v) == IF v.addr = "shared" THEN View(v.fd, "open") ELSE v

\* try_open_publish_map: a view that cannot be written is detached, and
\* simapi_universalmap_open may open another.
Opened(v) == IF ReadWrite(v) THEN {Unprotected(v)} ELSE Fresh

\* hide_readonly_publish_view; what the mapper is shown.
Hides(api, v) == api # "simd" /\ ~ReadWrite(v)
Shown(api, v) ==
    CASE api = "simd" -> v
      [] Hides(api, v) -> View(v.fd, "none")
      [] OTHER -> Unprotected(v)

\* restore_publish_view
Restored(api, v, left) == IF Hides(api, v) THEN View(left.fd, v.addr) ELSE left

\* datamap, with the view v: simd's record is read, a game's frame is copied to
\* the address shown, if one is.
Copies(api, v) == api # "simd" /\ Shown(api, v).addr # "none"
Datamap(api, v) ==
    /\ \E left \in Left(Shown(api, v)) : view' = Restored(api, v, left)
    /\ faulted' = (faulted \/ (Copies(api, v) /\ Shown(api, v).addr # "open"))

\* A game's frame is only ever copied to an address that can be written, though
\* any call of the library may have left a view that cannot be, and one made while
\* the address was hidden leaves its own descriptor beside the old address: the
\* copy would end the process.
CopiesWhereWritable == ~faulted
=============================================================================
