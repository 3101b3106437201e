----------------------------- MODULE PageRanges -----------------------------
(***************************************************************************)
(* Splitting a PDF: which page lists are accepted, which piece is written  *)
(* to which file, and what ends up in the ZIP.  service/pdf_service.go.    *)
(* A part of the list is <<>> (it does not match the pattern), <<n>> or    *)
(* <<n, m>>, with the numbers as written.                                  *)
(***************************************************************************)
EXTENDS Naturals, Sequences, FiniteSets, SequencesExt

CONSTANT MaxInt   \* strconv.Atoi gives it, and an error nobody looks at, beyond

ASSUME SplitAssumption == MaxInt \in Nat

\* Not a possible result: an accepted list has a range.
Refused == <<>>

Atoi(n) == IF n > MaxInt THEN MaxInt ELSE n

Pages(part) == [start |-> Atoi(Head(part)), end |-> Atoi(Last(part))]

Accepted_NoUpperEnd(r, pageCount) == r.start >= 1 /\ r.end >= 1 /\ r.start <= r.end
Accepted(r, pageCount) == r.start >= 1 /\ r.end >= 1 /\ r.start <= r.end /\ r.end <= pageCount

parsePageRanges(parts, pageCount) ==
  IF \A i \in DOMAIN parts : parts[i] # <<>> /\ Accepted(Pages(parts[i]), pageCount)
  THEN [i \in DOMAIN parts |-> Pages(parts[i])] ELSE Refused

splitAllPages(pageCount) == [i \in 1 .. pageCount |-> [start |-> i, end |-> i]]

\* %d
Decimal[n \in Nat] == IF n < 10 THEN <<n>> ELSE Append(Decimal[n \div 10], n % 10)

\* The name of a piece, "..._page_<n>.pdf" or "..._pages_<n>-<m>.pdf"; within
\* one request only the numbers differ.
PieceName_StartOnly(r) == <<Decimal[r.start], <<>>>>
PieceName(r) == <<Decimal[r.start], Decimal[r.end]>>

\* sort.Strings: "-" and "." come before the digits.
Before(a, b) == \/ IsStrictPrefix(a, b)
                \/ \E i \in DOMAIN a \cap DOMAIN b :
                     a[i] < b[i] /\ \A j \in 1 .. i - 1 : a[j] = b[j]
NameBefore(m, n) == Before(m[1], n[1]) \/ (m[1] = n[1] /\ Before(m[2], n[2]))

\* The pages in a file: what qpdf wrote last under that name.
PagesIn(ranges, n) == ranges[CHOOSE i \in DOMAIN ranges :
                               /\ PieceName(ranges[i]) = n
                               /\ \A j \in DOMAIN ranges : PieceName(ranges[j]) = n => j <= i]

\* The k-th name of the sorted list: fewer than k names go before it, and at
\* least k do not go after it.
Sorted_AsGiven(names) == names
Sorted(names) ==
  [k \in DOMAIN names |->
     CHOOSE x \in Range(names) :
       /\ Cardinality({j \in DOMAIN names : NameBefore(names[j], x)}) < k
       /\ k <= Cardinality({j \in DOMAIN names : ~NameBefore(x, names[j])})]

createZipFromFiles(ranges) ==
  LET names == Sorted([i \in DOMAIN ranges |-> PieceName(ranges[i])])
  IN  [i \in DOMAIN names |-> [name |-> names[i], pages |-> PagesIn(ranges, names[i])]]

SplitPDF(mode, parts, pageCount) ==
  IF pageCount < 2 THEN Refused
  ELSE createZipFromFiles(IF mode = "all" THEN splitAllPages(pageCount)
                          ELSE parsePageRanges(parts, pageCount))
-----------------------------------------------------------------------------
(* What it should be. *)

Proper(part, pageCount) ==
  part # <<>> /\ 1 <= Head(part) /\ Head(part) <= Last(part) /\ Last(part) <= pageCount

Requested(mode, parts, pageCount) ==
  IF mode = "all" THEN {<<n, n>> : n \in 1 .. pageCount}
  ELSE {<<Head(parts[i]), Last(parts[i])>> : i \in DOMAIN parts}

\* A list is refused as soon as one part names no pages of the document, be its
\* numbers too large for an int; otherwise the archive has exactly the pages
\* asked for, as many entries as announced (split_count), and different ranges
\* do not overwrite each other's file.
Delivers(mode, parts, pageCount) ==
  LET zip == SplitPDF(mode, parts, pageCount)
      want == Requested(mode, parts, pageCount)
  IN  IF pageCount >= 2 /\ (mode = "all" \/ \A i \in DOMAIN parts : Proper(parts[i], pageCount))
      THEN /\ {<<zip[i].pages.start, zip[i].pages.end>> : i \in DOMAIN zip} = want
           /\ Len(zip) = IF mode = "all" THEN pageCount ELSE Len(parts)
      ELSE zip = Refused

\* "Sort files to ensure deterministic ZIP ordering": the order in which ranges
\* are listed does not show in the archive.
Deterministic(parts, pageCount) ==
  \A i, j \in DOMAIN parts :
    LET swapped == [parts EXCEPT ![i] = parts[j], ![j] = parts[i]]
    IN  SplitPDF("ranges", swapped, pageCount) = SplitPDF("ranges", parts, pageCount)
=============================================================================
