---------------------------- MODULE AddressSpace ----------------------------
(***************************************************************************)
(* What paging.h promises: a table of translations, one per virtual page.  *)
(* A caller asks for one page to be mapped or unmapped; the call changes   *)
(* that page's translation to what was asked, or leaves everything as it   *)
(* is because no frame is left for a page table.  No call touches the      *)
(* translation of another page, and none touches the boot identity map.    *)
(***************************************************************************)
CONSTANTS
  Page,         \* virtual pages
  Target,       \* what a page may translate to: a frame with its rights
  NoTarget,     \* the page is not mapped
  NoRequest     \* no call is in progress

VARIABLES
  translation,  \* [Page -> Target \cup {NoTarget}]
  request,      \* [page, target] of the call in progress, or NoRequest
  room          \* whether a frame is left for a page table

vars == <<translation, request, room>>

Request == [page : Page, target : Target \cup {NoTarget}]

Init ==
  /\ translation \in [Page -> Target \cup {NoTarget}]
  /\ request = NoRequest
  /\ room \in BOOLEAN

Call ==
  /\ request = NoRequest
  /\ request' \in Request
  /\ UNCHANGED <<translation, room>>

(* The one change a call makes; it may use up the last frame before. *)
Perform ==
  /\ request # NoRequest
  /\ translation' = [translation EXCEPT ![request.page] = request.target]
  /\ UNCHANGED <<request, room>>

(* Creating page tables uses up frames and changes no translation. *)
Consume ==
  /\ request # NoRequest
  /\ room' \in BOOLEAN
  /\ room' => room
  /\ UNCHANGED <<translation, request>>

(* A call ends when the page translates as asked, or for want of a frame. *)
Return ==
  /\ request # NoRequest
  /\ translation[request.page] = request.target \/ ~room
  /\ request' = NoRequest
  /\ UNCHANGED <<translation, room>>

Next == Call \/ Perform \/ Consume \/ Return

Spec == Init /\ [][Next]_vars

=============================================================================
