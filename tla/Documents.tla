----------------------------- MODULE Documents -----------------------------
(***************************************************************************)
(* What the language server promises an editor about the text it answers   *)
(* from: an open document is known with the text the editor last sent, and *)
(* closing it goes back to the file on disk, if there is one.  A document   *)
(* that is not open may be read again from disk, or forgotten, at any time. *)
(***************************************************************************)
EXTENDS Naturals

CONSTANTS Path, Text, NoText

VARIABLES disk,     \* the files of the workspace; NoText where there is none
          editor,   \* the text of every open document, NoText for the others
          view      \* what the server answers from, NoText if it knows nothing

vars == <<disk, editor, view>>

Init == /\ disk \in [Path -> Text \cup {NoText}]
        /\ editor = [p \in Path |-> NoText]
        /\ view = [p \in Path |-> NoText]

Edit(p, t) == /\ editor' = [editor EXCEPT ![p] = t]
              /\ view' = [view EXCEPT ![p] = t]
              /\ UNCHANGED disk

Close(p) == /\ editor[p] # NoText
            /\ editor' = [editor EXCEPT ![p] = NoText]
            /\ view' = [view EXCEPT ![p] = IF disk[p] # NoText THEN disk[p] ELSE @]
            /\ UNCHANGED disk

Refresh == /\ \E new \in [Path -> Text \cup {NoText}] :
                 /\ \A p \in Path : IF editor[p] # NoText THEN new[p] = view[p]
                                    ELSE new[p] \in {view[p], disk[p], NoText}
                 /\ view' = new
           /\ UNCHANGED <<disk, editor>>

Store(p, t) == disk' = [disk EXCEPT ![p] = t] /\ UNCHANGED <<editor, view>>

Next == \/ \E p \in Path : Close(p)
        \/ \E p \in Path, t \in Text : Edit(p, t)
        \/ \E p \in Path, t \in Text \cup {NoText} : Store(p, t)
        \/ Refresh

Spec == Init /\ [][Next]_vars
=============================================================================
