---------------------------- MODULE MCExtraction ----------------------------
(* A small instance of Extraction for TLC.                                 *)
EXTENDS Extraction

CONSTANTS
  keyword,  (* "Keyword ...Search": a box, compared with ==, runs a tool    *)
  carving,  (* "FILE_CARVING": a dialog, compared with ==, runs a tool      *)
  form,     (* "DEFAULT_WEB_FORM_DATA": a dialog, equals, one file twice    *)
  bluetooth,(* "Bluetooth Data": a box, ==, its own files and a store       *)
  gmail,    (* "Gmail": a box, ==, a store whose existence is tested        *)
  strings   (* "Extract String": a box that no branch compares with         *)

MCReads == [o \in Options |-> CASE o \in {keyword, carving} -> <<"tool">>
                                 [] o = form -> <<"store", "again">>
                                 [] o = bluetooth -> <<"direct", "store">>
                                 [] o = gmail -> <<"tested">>
                                 [] o = strings -> <<>>]

(* Everything was acquired, or nothing but the browser's store.            *)
MCAllStores == {Store(c, o) : c \in Cases, o \in Options}
MCSomeStores == {Store(c, o) : c \in Cases, o \in Options \cap {form}}

(* The template file is missing, or holds options that a string read from  *)
(* it never equals.                                                        *)
MCNoTemplate == {<<>>}
MCTemplates == {<<>>, <<keyword, carving>>}

Symmetry == Permutations(Operations) \union Permutations(Cases)
=============================================================================
