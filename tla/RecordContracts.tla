---------------------------- MODULE RecordContracts ----------------------------
(***************************************************************************)
(* What a record service is made of: the table it stores its rows in, the *)
(* bodies its routes accept, and the configuration it hands to             *)
(* createItsmCrudService or createTenantCrudService, or repeats by hand.   *)
(***************************************************************************)

(***************************************************************************)
(* A table: its text columns, its other columns, those a new row cannot do *)
(* without, and its unique indexes (each of them within one organization). *)
(***************************************************************************)
Table(text, other, needed, unique) ==
    [text |-> text, columns |-> text \cup other, needed |-> needed, unique |-> unique]

\* The columns that say when a row was made, changed and deleted.
Stamps == {"createdAt", "updatedAt", "deletedAt"}

\* Columns to sort by, with the two dates nearly every list may be sorted by.
Dated(columns) == columns \cup {"createdAt", "updatedAt"}

\* A body: the fields it must have and the fields it may have; no other field passes.
Input(required, optional) == [required |-> required, optional |-> optional]
Fields(input) == input.required \cup input.optional

\* What .partial() makes of a body, and .omit() of a field.
Partial(input) == Input({}, Fields(input))
Omit(input, field) == Input(input.required \ {field}, input.optional \ {field})
NoInput == Input({}, {})

(***************************************************************************)
(* A check that the values of some columns are free, made before a write:  *)
(* it reads every row that is stored, or only the rows not deleted.        *)
(***************************************************************************)
Check(columns, reads) == [columns |-> columns, reads |-> reads]
Over(columns) == Check(columns, "stored")
OverLive(columns) == Check(columns, "live")

(***************************************************************************)
(* A service over a table, with the defaults of the factories: what it     *)
(* searches, sorts, filters and orders by, the column its transitions set, *)
(* the checks before a write, the columns the service fills in or leaves   *)
(* out, the columns its own operations set, and                            *)
(*   partly    an update that names only part of the columns is unchecked, *)
(*   revives   a create takes over a deleted row with the same value,      *)
(*   numbered  the checked value is generated,                             *)
(*   within    the checked value is free for each parent on its own,       *)
(*   parent    the rows that own its rows: none, its own or another's,     *)
(*   by        the column that names the owner,                            *)
(*   asserted  whether the owner is looked up: never, when given, always,  *)
(*   itself    a row may be named as its own owner,                        *)
(*   guarded   a parent with live children is not deleted,                 *)
(*   removed   its rows can be deleted,                                    *)
(*   default   how a row becomes the default one: it cannot ("none"), by   *)
(*             setDefault alone ("chosen"), by any write ("kept").         *)
(***************************************************************************)
Service(table, create, update) ==
    [table |-> table, create |-> create, update |-> update,
     search |-> {}, sort |-> {}, filter |-> {}, order |-> "createdAt",
     status |-> {"status"}, createdBy |-> TRUE, soft |-> TRUE,
     checks |-> {}, supplied |-> {}, dropped |-> {}, sets |-> {},
     partly |-> FALSE, revives |-> FALSE, numbered |-> FALSE, within |-> FALSE,
     parent |-> "none", by |-> "none", asserted |-> "never", itself |-> FALSE,
     guarded |-> FALSE, removed |-> TRUE, default |-> "none"]

\* The columns a create writes (some rows are made elsewhere), and those that an
\* update and the service's own operations write.
HasCreate(service) == Fields(service.create) \cup service.supplied # {}
\* Mutation: the body is stored as it came, without mapInput.
CreatedUnmapped(service) ==
    Fields(service.create) \cup service.supplied
        \cup (IF service.createdBy THEN {"createdById"} ELSE {})
Created(service) ==
    (Fields(service.create) \ service.dropped) \cup service.supplied
        \cup (IF service.createdBy THEN {"createdById"} ELSE {})
Changed(service) ==
    (Fields(service.update) \ service.dropped) \cup service.sets
================================================================================
