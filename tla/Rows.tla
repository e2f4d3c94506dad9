-------------------------------- MODULE Rows --------------------------------
(***************************************************************************)
(* Rows of a table: records that have an id.                               *)
(***************************************************************************)

Ids(rows) == {row.id : row \in rows}
WithId(rows, id) == {row \in rows : row.id = id}

\* The fields of a record written over those of another.
Over(new, old) ==
    [field \in DOMAIN new \cup DOMAIN old |->
        IF field \in DOMAIN new THEN new[field] ELSE old[field]]
=============================================================================
