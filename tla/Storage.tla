------------------------------ MODULE Storage ------------------------------
(***************************************************************************)
(* The item store of the example server (example/storage.cc): one circular *)
(* doubly linked list of items and a counter that hands out CAS values.    *)
(* The list is a sequence that starts at root.  An item's key is opaque;   *)
(* its data is a sequence of parts, of which an 8 byte counter written by  *)
(* an arithmetic command is one.  Expiry times are stored by the code and  *)
(* read by nothing but the arithmetic commands, which copy them: left out. *)
(***************************************************************************)
EXTENDS Integers, Sequences

EmptyStore == [list |-> << >>, cas |-> 0]

(* get_item: the walk from root, once around; 0 is NULL.                   *)
get_item(s, key) ==
    LET found == {i \in DOMAIN s.list : s.list[i].key = key}
    IN  IF found = {} THEN 0
        ELSE CHOOSE i \in found : \A j \in found : i <= j

Has(s, key) == get_item(s, key) # 0
Item(s, key) == s.list[get_item(s, key)]

(* create_item: the CAS value is given when the item is put in the list.   *)
create_item(key, data, flags) ==
    [key |-> key, data |-> data, flags |-> flags, cas |-> 0]

(* Fault: the CAS values start again when the list is empty.               *)
put_item_restarts(s, item) ==
    LET cas == IF s.list = << >> THEN 1 ELSE s.cas + 1
    IN  [list |-> << [item EXCEPT !.cas = cas] >> \o s.list, cas |-> cas]

(* put_item: update_cas, then the new item becomes the root.               *)
put_item(s, item) ==
    [list |-> << [item EXCEPT !.cas = s.cas + 1] >> \o s.list,
     cas |-> s.cas + 1]

(* Fault: the item stays in the list.                                      *)
delete_item_keeps(s, key) == s

(* delete_item: the item after the removed one becomes the root, so the    *)
(* walk of the next get_item starts there.  FALSE, the result of the code, *)
(* is ~Has(s, key).                                                        *)
delete_item(s, key) ==
    LET i == get_item(s, key)
    IN  IF i = 0 THEN s
        ELSE [s EXCEPT !.list = SubSeq(s.list, i + 1, Len(s.list))
                                \o SubSeq(s.list, 1, i - 1)]

(* The CAS counter goes on.                                                *)
flush(s) == [s EXCEPT !.list = << >>]
============================================================================
