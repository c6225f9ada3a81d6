---------------------------- MODULE Translations ----------------------------
(***************************************************************************)
(* The translations and the cache of them that answers t(): I18nService.   *)
(*                                                                         *)
(* A place is a key in a language.  A text's id is the place of its row in *)
(* `texts'.  The cache is set when the answer of the database has arrived, *)
(* after the commit and not together with it.  t()'s fallback to Spanish,  *)
(* modules and contexts are left out.                                      *)
(***************************************************************************)
EXTENDS Handlers

CONSTANTS
    Places,     \* pairs of key and language
    Seeded,     \* the places of the default translations
    Values,     \* bound: texts that administrators write
    Imports,    \* bound: the lists of items that they import
    MaxTexts    \* bound: rows of the table where one more may be inserted

VARIABLES
    texts,      \* texts[i] : the row of text i
    cache       \* cache[p] : the text that t() finds for place p

TextVars == <<calls, texts, cache>>

NoText == "no text"
Bad == "bad"    \* the value of an imported item that the database refuses

\* The defaults have places; an import without items is left out: it changes no
\* row and reloads the cache, as ReloadCache does.
ASSUME TextsAssumption ==
    /\ Seeded \subseteq Places /\ IsFiniteSet(Seeded)
    /\ \A items \in Imports : /\ items \in Seq([place : Places, value : Values \cup {Bad}])
                              /\ items # <<>>

SeedText(p) == [place |-> p, value |-> "default", system |-> TRUE, live |-> TRUE]

At(p) == {i \in DOMAIN texts : texts[i].live /\ texts[i].place = p}
Cached(rows) ==
    [p \in Places |-> IF \E i \in DOMAIN rows : rows[i].live /\ rows[i].place = p
                      THEN rows[CHOOSE i \in DOMAIN rows : rows[i].live /\ rows[i].place = p].value
                      ELSE NoText]

TextsInit ==
    /\ \E order \in [1..Cardinality(Seeded) -> Seeded] :
          /\ \A p \in Seeded : \E i \in DOMAIN order : order[i] = p
          /\ texts = [i \in DOMAIN order |-> SeedText(order[i])]
    /\ cache = [p \in Places |-> IF p \in Seeded THEN "default" ELSE NoText]

Room == Len(texts) + Pending({"text.insert", "import.find", "import.save"}) < MaxTexts

\* Mutant: the old entry stays.
Forget_Not(p) == UNCHANGED cache

Forget(p) == cache' = [cache EXCEPT ![p] = NoText]

\* create
CreateText(r, p, v, system) ==
    /\ At(p) = {} /\ Room
    /\ Receive(r, "text.insert", [places |-> {p}, row |-> [place |-> p, value |-> v,
                                                           system |-> system, live |-> TRUE]])
    /\ UNCHANGED <<texts, cache>>

\* Key and language are unique together.
InsertText(r) ==
    /\ Awaits(r, "text.insert")
    /\ IF At(My(r).row.place) = {}
       THEN texts' = Append(texts, My(r).row) /\ AwaitNext(r, "text.told")
       ELSE Answer(r) /\ UNCHANGED texts
    /\ UNCHANGED cache

TellText(r) ==
    /\ Awaits(r, "text.told")
    /\ cache' = [cache EXCEPT ![My(r).row.place] = My(r).row.value]
    /\ Answer(r)
    /\ UNCHANGED texts

\* update; `moves' if the request names the key or the language.
UpdateText(r, i, row, moves) ==
    /\ i \in DOMAIN texts /\ texts[i].live
    /\ ~moves => row.place = texts[i].place
    /\ Receive(r, IF moves THEN "text.check" ELSE "text.save",
               [places |-> {texts[i].place, row.place}, id |-> i, row |-> row,
                was |-> texts[i].place])
    /\ IF moves THEN UNCHANGED cache ELSE Forget(texts[i].place)
    /\ UNCHANGED texts

CheckText(r) ==
    /\ Awaits(r, "text.check")
    /\ IF At(My(r).row.place) \subseteq {My(r).id}
       THEN Forget(My(r).was) /\ AwaitNext(r, "text.save")
       ELSE Answer(r) /\ UNCHANGED cache
    /\ UNCHANGED texts

\* save inserts a row that is gone.
SaveText(r) ==
    /\ Awaits(r, "text.save")
    /\ IF At(My(r).row.place) \subseteq {My(r).id}
       THEN texts' = [texts EXCEPT ![My(r).id] = My(r).row] /\ AwaitNext(r, "text.told")
       ELSE Answer(r) /\ UNCHANGED texts
    /\ UNCHANGED cache

\* delete
DeleteText(r, i) ==
    /\ i \in DOMAIN texts /\ texts[i].live /\ ~texts[i].system
    /\ Forget(texts[i].place)
    /\ Receive(r, "text.remove", [places |-> {texts[i].place}, id |-> i])
    /\ UNCHANGED texts

RemoveText(r) ==
    /\ Awaits(r, "text.remove")
    /\ texts' = [texts EXCEPT ![My(r).id].live = FALSE]
    /\ Answer(r)
    /\ UNCHANGED cache

\* bulkImport: the items one by one, then the cache.
ImportTexts(r, items) ==
    /\ Room
    /\ Receive(r, "import.find", [places |-> Places, todo |-> items])
    /\ UNCHANGED <<texts, cache>>

FindImported(r) ==
    LET item == Head(My(r).todo)
        found == At(item.place)
        id == IF found = {} THEN 0 ELSE CHOOSE i \in found : TRUE
        row == IF id = 0 THEN [SeedText(item.place) EXCEPT !.system = FALSE] ELSE texts[id]
    IN  /\ Awaits(r, "import.find")
        /\ Await(r, "import.save", [places |-> Places, todo |-> Tail(My(r).todo), id |-> id,
                                    row |-> [row EXCEPT !.value = item.value]])
        /\ UNCHANGED <<texts, cache>>

\* A refused item ends the request; the items before it stay in the table.
SaveImported(r) ==
    LET my == My(r)
    IN  /\ Awaits(r, "import.save")
        /\ IF my.row.value = Bad \/ ~(At(my.row.place) \subseteq {my.id})
           THEN Answer(r) /\ UNCHANGED texts
           ELSE /\ texts' = IF my.id = 0 THEN Append(texts, my.row)
                                         ELSE [texts EXCEPT ![my.id] = my.row]
                /\ Await(r, IF my.todo = <<>> THEN "texts.find" ELSE "import.find",
                         [places |-> Places, todo |-> my.todo])
        /\ UNCHANGED cache

\* loadTranslations reads the table, then replaces the cache.
ReloadCache(r) ==
    /\ Receive(r, "texts.find", [places |-> Places])
    /\ UNCHANGED <<texts, cache>>

ReadTexts(r) ==
    /\ Awaits(r, "texts.find")
    /\ Await(r, "texts.told", [places |-> Places, found |-> Cached(texts)])
    /\ UNCHANGED <<texts, cache>>

LoadTexts(r) ==
    /\ Awaits(r, "texts.told")
    /\ cache' = My(r).found
    /\ Answer(r)
    /\ UNCHANGED texts

\* A restart ends the handlers.  Before it serves, the process gives the
\* default to the system's texts and to the places that have none.
RestartTexts ==
    LET missing == {p \in Seeded : At(p) = {}}
        kept == [i \in DOMAIN texts |->
                    IF texts[i].system /\ texts[i].place \in Seeded
                    THEN [texts[i] EXCEPT !.value = "default"] ELSE texts[i]]
    IN  /\ Len(texts) + Cardinality(missing) <= MaxTexts
        /\ \E order \in [1..Cardinality(missing) -> missing] :
              /\ \A p \in missing : \E i \in DOMAIN order : order[i] = p
              /\ texts' = kept \o [i \in DOMAIN order |-> SeedText(order[i])]
        /\ cache' = Cached(texts')
        /\ calls' = [r \in Slots |-> Free]

TextCalls(r) ==
    \/ InsertText(r) \/ CheckText(r) \/ SaveText(r) \/ TellText(r) \/ RemoveText(r)
    \/ FindImported(r) \/ SaveImported(r)
    \/ ReadTexts(r) \/ LoadTexts(r)

TextsNext ==
    \/ \E r \in Slots :
          \/ \E p \in Places, v \in Values, system \in BOOLEAN :
                \/ CreateText(r, p, v, system)
                \/ \E i \in DOMAIN texts, moves \in BOOLEAN :
                      UpdateText(r, i, [place |-> p, value |-> v, system |-> system, live |-> TRUE], moves)
          \/ \E i \in DOMAIN texts : DeleteText(r, i)
          \/ \E items \in Imports : ImportTexts(r, items)
          \/ ReloadCache(r)
          \/ TextCalls(r)
    \/ RestartTexts

\* The translations on their own.
TextsSpec == HandlersInit /\ TextsInit /\ [][TextsNext]_TextVars

-----------------------------------------------------------------------------
\* A request that succeeds undisturbed leaves t() with what the table says of
\* every key that it touched, wherever the request moved them; an import and a
\* reload leave it so for all keys, whatever races or failed imports came before.
TextsAgree ==
    [][\A r \in Slots :
          /\ calls[r].at \in {"text.told", "text.remove", "texts.told"}
          /\ calls[r].alone /\ ~InFlight(r)'
          => \A p \in My(r).places : cache'[p] = Cached(texts')[p]
      ]_TextVars
=============================================================================
