------------------------------ MODULE Arguments ------------------------------
(***************************************************************************)
(* The texts of --object-options, --startup-options and --generate taken   *)
(* apart (src/package/startup/startup/parse_arguments.cpp). A text is a    *)
(* sequence of words and the separators ":" and "="; a map is a function.  *)
(***************************************************************************)
EXTENDS Integers, Sequences, SequencesExt, FiniteSetsExt, Functions

Nothing == <<>>    \* the empty text, the empty map
All == <<"all">>

\* std::string::find, 0: none.
Mark(text, separator) == SelectInSeq(text, LAMBDA t : t = separator)

Before(text, separator) ==
    IF Mark(text, separator) = 0 THEN text
                                 ELSE SubSeq(text, 1, Mark(text, separator) - 1)

After(text, separator) ==
    IF Mark(text, separator) = 0 THEN Nothing
    ELSE SubSeq(text, Mark(text, separator) + 1, Len(text))

\* The pieces between the colons of a text, one at least.
Pieces(text) ==
    FoldLeft(LAMBDA pieces, t :
               IF t = ":" THEN Append(pieces, Nothing)
                          ELSE Front(pieces) \o <<Append(Last(pieces), t)>>,
             <<Nothing>>, text)

\* res[key]=val
Put(res, key, val) ==
    [k \in DOMAIN res \cup {key} |-> IF k = key THEN val ELSE res[k]]

parse_pair(res, piece) == Put(res, Before(piece, "="), After(piece, "="))

parse_options(res, text) == FoldLeft(parse_pair, res, Pieces(text))

\* operator[] of a map: what is not there is made.
Entry(res, name) == IF name \in DOMAIN res THEN res[name] ELSE Nothing

\* Mutant of Merged: a second text about an object replaces the first.
MergedAnew(entry, text) == parse_options(Nothing, After(text, ":"))

Merged(entry, text) ==
    IF Mark(text, ":") = 0 THEN entry ELSE parse_options(entry, After(text, ":"))

parse_instance(res, text) ==
    IF text = Nothing THEN res
    ELSE LET name == Before(text, ":")
         IN  Put(res, name, Merged(Entry(res, name), text))

parse_custom_options(texts) == FoldLeft(parse_instance, Nothing, texts)

\* --generate: the last argument of a name counts, colons and all.
parse_generate(texts) ==
    FoldLeft(LAMBDA res, text : Put(res, Before(text, ":"), After(text, ":")),
             Nothing, texts)

-----------------------------------------------------------------------------
(***************************************************************************)
(* What the help text promises: <<object-name>>:arg=value[:arg2=value2...] *)
(* told by the places of the separators.                                   *)
(***************************************************************************)
Until(text, from, separators) ==
    SubSeq(text, from,
           Min({i \in from..Len(text) : text[i] \in separators}
               \cup {Len(text) + 1}) - 1)

ObjectOf(text) == Until(text, 1, {":"})

KeyAt(text, i) == Until(text, i, {":", "="})

ValueAt(text, i) ==
    LET piece == Until(text, i, {":"})
    IN  SubSeq(piece, Len(KeyAt(text, i)) + 2, Len(piece))

\* Where the args of a text start: behind its colons.
Starts(text) == {p \in 2..(Len(text) + 1) : text[p - 1] = ":"}

\* Where the args of an object are: in which text, and where in it.
Mentions(texts, object) ==
    UNION {{i} \X Starts(texts[i]) :
              i \in {i \in DOMAIN texts : ObjectOf(texts[i]) = object}}

KeyOf(texts, m) == KeyAt(texts[m[1]], m[2])

LastMention(texts, object, key) ==
    CHOOSE m \in Mentions(texts, object) :
        /\ KeyOf(texts, m) = key
        /\ \A o \in Mentions(texts, object) : KeyOf(texts, o) = key =>
              o[1] < m[1] \/ (o[1] = m[1] /\ o[2] <= m[2])

\* Every object that is named, with the value of the last mention of each arg.
LastMentions(texts) ==
    [object \in {ObjectOf(t) : t \in Range(texts) \ {Nothing}} |->
       [key \in {KeyOf(texts, m) : m \in Mentions(texts, object)} |->
          LET m == LastMention(texts, object, key)
          IN  ValueAt(texts[m[1]], m[2])]]
=============================================================================
