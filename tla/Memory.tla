------------------------------- MODULE Memory -------------------------------
(***************************************************************************)
(* memory.py for one user: what each statement does to a table's rows, in  *)
(* the order they were inserted, and how the rows are read.  Checkout and  *)
(* McpServer keep the tables.                                              *)
(***************************************************************************)
EXTENDS Naturals, Sequences, SequencesExt

CONSTANT Nil    \* no session, no value, no payment

\* A closed set: there is no "budget" in it, and no "auto_approve".
AllowedKeys == {"unit", "brand", "store", "size", "diet"}

\* A session of Nil is scope "always".  A refused preference changes nothing.
SetPreference(rows, key, value, session) ==
  IF key \in AllowedKeys
  THEN Append(rows, [key |-> key, value |-> value, session |-> session])
  ELSE rows

Applies(row, session) == row.session \in {Nil, session}

\* Later rows replace earlier ones.
Preferences(rows, session) ==
  LET now == SelectSeq(rows, LAMBDA row : Applies(row, session))
  IN  [key \in {now[i].key : i \in DOMAIN now} |->
         LET i == CHOOSE i \in DOMAIN now :
                    /\ now[i].key = key
                    /\ \A j \in DOMAIN now : now[j].key = key => j <= i
         IN  now[i].value]

Remembered(rows, session, key) ==
  LET values == Preferences(rows, session)
  IN  IF key \in DOMAIN values THEN values[key] ELSE Nil

\* Every row of the key goes, whichever session it was for.
ForgetPreference(rows, key) == SelectSeq(rows, LAMBDA row : row.key # key)

\* Saving a store twice is saving it once.
RememberStore(stores, domain) ==
  IF domain \in Range(stores) THEN stores ELSE Append(stores, domain)

ForgetStore(stores, domain) == SelectSeq(stores, LAMBDA s : s # domain)
=============================================================================
