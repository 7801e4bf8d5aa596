------------------------------- MODULE ConfigFile -------------------------------
(***************************************************************************)
(* The key=value file of src/src/util/config.cpp, which holds the session  *)
(* and the settings: what a reader makes of its lines, what a setter makes *)
(* of a value, and what is written back.  Every writer reads the file,     *)
(* sets its own keys and writes all of it again.                           *)
(*                                                                         *)
(* A value is a text of some length without blanks at its ends; of a value *)
(* that is cut, the beginning remains, and does not end in a blank either. *)
(* A line that is a comment, empty, or without = or a key is Noise.  Keys  *)
(* are shorter than CONFIG_MAX_KEY, as all of the program's are.           *)
(***************************************************************************)
EXTENDS Naturals, Sequences, FiniteSetsExt

CONSTANTS
    Keys,
    Texts,
    CONFIG_MAX_ENTRIES,
    CONFIG_MAX_KEY,
    CONFIG_MAX_VALUE

(* config_open passes over a line whose key is empty.                      *)
ASSUME KeysAssumption == "" \notin Keys

ASSUME LimitsAssumption ==
    /\ CONFIG_MAX_ENTRIES \in Nat
    /\ CONFIG_MAX_KEY \in Nat
    /\ CONFIG_MAX_VALUE \in Nat \ {0}

Values  == [text : Texts, length : Nat]
Entry(k, v) == [key |-> k, value |-> v]
Entries == [key : Keys, value : Values]
Noise   == Entry("", [text |-> "", length |-> 0])
Lines   == Entries \cup {Noise}

-----------------------------------------------------------------------------
(* str_safe_copy, into a buffer that a terminator shares.                  *)
Cut(v) == [v EXCEPT !.length = IF @ < CONFIG_MAX_VALUE THEN @ ELSE CONFIG_MAX_VALUE - 1]

(* find_entry: the entries of a key, of which there is one at most.        *)
Found(cfg, k) == {i \in DOMAIN cfg : cfg[i].key = k}

(* config_set_str: a key that is new is dropped when there is no room.     *)
SetStr(cfg, entry) ==
    LET k == entry.key
        v == Cut(entry.value)
    IN  IF Found(cfg, k) # {}
        THEN [i \in DOMAIN cfg |-> IF i \in Found(cfg, k) THEN Entry(k, v) ELSE cfg[i]]
        ELSE IF Len(cfg) >= CONFIG_MAX_ENTRIES THEN cfg
        ELSE Append(cfg, Entry(k, v))

SetLine(cfg, line) == IF line = Noise THEN cfg ELSE SetStr(cfg, line)

(* Lines that are set one after the other.                                 *)
SetAll(cfg, lines) ==
    LET after[n \in 0..Len(lines)] ==
            IF n = 0 THEN cfg ELSE SetLine(after[n - 1], lines[n])
    IN  after[Len(lines)]

(* config_get_str *)
GetStr(cfg, k, default) ==
    IF Found(cfg, k) = {} THEN default ELSE cfg[Min(Found(cfg, k))].value

(* config_open *)
Open(lines) == SetAll(<<>>, lines)

(* config_save: comments do not survive.                                   *)
Save(cfg) == <<Noise>> \o cfg

(* save_session, save_settings, clear_saved_session, persist_session.      *)
Rewrite(lines, entries) == Save(SetAll(Open(lines), entries))

-----------------------------------------------------------------------------
(* Properties.  Files are what the program wrote or a user edited: keys in *)
(* any order, doubled, between comments, with values of any length.        *)

Read(lines, k) == GetStr(Open(lines), k, [text |-> "default", length |-> 0])

KeysOf(lines) == {lines[i].key : i \in {j \in DOMAIN lines : lines[j] # Noise}}

(* What is saved is what is read at the next launch, and the keys of other *)
(* writers are as they were -- as long as there is room, and but for what  *)
(* is cut of a value too long.                                             *)
RewriteKeepsOthers(Files, Writes) ==
    \A lines \in Files, entries \in Writes :
        Cardinality(KeysOf(lines) \cup KeysOf(entries)) <= CONFIG_MAX_ENTRIES =>
            \A k \in Keys :
                Read(Rewrite(lines, entries), k) =
                    IF k \in KeysOf(entries)
                    THEN Cut(entries[Max({i \in DOMAIN entries : entries[i].key = k})].value)
                    ELSE Read(lines, k)

(* What was cut once is not cut again: a file that is rewritten without a  *)
(* change, any number of times, says the same.                             *)
RewriteSettles(Files) ==
    \A lines \in Files : Rewrite(Rewrite(lines, <<>>), <<>>) = Rewrite(lines, <<>>)

(* A full file keeps what it has: only keys that are new are lost.         *)
FullKeepsOld(Files, Writes) ==
    \A lines \in Files, entries \in Writes :
        \A k \in KeysOf(Save(Open(lines))) : k \in KeysOf(Rewrite(lines, entries))

(* The reader takes in a line whole that the writer wrote: its buffer has  *)
(* room for the longest key and value, =, the line's end and a terminator. *)
LineFits(Files) ==
    \A lines \in Files : \A i \in DOMAIN Open(lines) :
        (CONFIG_MAX_KEY - 1) + 1 + Open(lines)[i].value.length + 1
            <= (CONFIG_MAX_KEY + CONFIG_MAX_VALUE + 4) - 1
=============================================================================
