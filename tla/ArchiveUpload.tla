---------------------------- MODULE ArchiveUpload ----------------------------
(***************************************************************************)
(* An archive upload up to the object store: the two limits on the request *)
(* body, the checks of size, extension and content, and the name that is   *)
(* stored.  config/config.go, middleware/middleware.go, handler/paste.go,  *)
(* service/paste_service.go, service/archive.go.                           *)
(* A name is a sequence of runes; an extension is a dot and one rune.      *)
(***************************************************************************)
EXTENDS Integers, Sequences, SequencesExt, FiniteSetsExt

CONSTANTS
  MB,                         \* the units of a megabyte
  MaxBodyMB,                  \* MAX_UPLOAD_SIZE_MB, 50
  MaxNameRunes, MaxNameBytes, MaxExtRunes  \* maxFileNameLen, maxFileNameBytes, maxExtensionLen

ASSUME ArchiveAssumption ==
  /\ MB \in Nat \ {0} /\ MaxBodyMB \in Nat
  /\ MaxNameRunes \in Nat /\ MaxNameBytes \in Nat /\ MaxExtRunes \in Nat
  \* An extension and a stem fit: 16 runes of 120, and at most 64 bytes of 200.
  /\ MaxExtRunes >= 2 /\ MaxExtRunes < MaxNameRunes /\ 3 * MaxExtRunes <= MaxNameBytes

\* "?" stands for the control and reserved characters, "/" for both separators;
\* "w" is a rune of three bytes; "Z", "G" and "T" end the names of a kind.
Rune == {".", " ", "/", "?", "_", "a", "w", "Z", "G", "T"}
Bytes(name) == Len(name) + 2 * Cardinality({i \in DOMAIN name : name[i] = "w"})

\* fallbackFileName, "archive"
Fallback == <<"a">>

\* getEnvArchiveMaxMB; unset or unreadable is as good as 0.
ArchiveMaxMB_TooHigh(env) == IF env < 1 THEN 20 ELSE IF env > 50 THEN 50 ELSE env
ArchiveMaxMB(env) == IF env < 1 THEN 20 ELSE IF env > 49 THEN 49 ELSE env

\* MaxBodySize, and inside it the handler's own reader with 1 MB for the framing.
BodyLimit(env) == Min({MaxBodyMB * MB, ArchiveMaxMB(env) * MB + MB})
-----------------------------------------------------------------------------
\* lastPathSegment
LastSegment(name) ==
  LET cuts == {i \in DOMAIN name : name[i] = "/"}
  IN  IF cuts = {} THEN name ELSE SubSeq(name, Max(cuts) + 1, Len(name))

\* strings.TrimRight, TrimSpace
TrimRight(name, runes) ==
  SubSeq(name, 1, Max({0} \cup {i \in DOMAIN name : name[i] \notin runes}))
TrimSpace(name) == Reverse(TrimRight(Reverse(TrimRight(name, {" "})), {" "}))

Kinds == [zip |-> "Z", gzip |-> "G", tar |-> "T"]

\* The kind a name claims, "none" without a known extension; a stem is needed.
HasSuffix(name, k) == Len(name) >= 2 /\ SubSeq(name, Len(name) - 1, Len(name)) = <<".", Kinds[k]>>
Claimed(name) ==
  LET base == LastSegment(name)
  IN  IF \E k \in DOMAIN Kinds : Len(base) > 2 /\ HasSuffix(base, k)
      THEN CHOOSE k \in DOMAIN Kinds : HasSuffix(base, k) ELSE "none"

\* hasMagic: head is what the leading bytes are the magic number of, and
\* whether there is "ustar" at offset 257 (a file can have both).
hasMagic(kind, head) == IF kind = "tar" THEN head.ustar ELSE head.prefix = kind

DetectArchive(name, head) ==
  IF Claimed(name) # "none" /\ hasMagic(Claimed(name), head) THEN Claimed(name) ELSE "none"

\* strings.ReplaceAll(name, "..", "_"); one pass leaves no "..".
NoDoubleDots(name) ==
  LET to[i \in 0 .. Len(name)] ==
        IF i = 0 THEN <<>>
        ELSE IF name[i] = "." /\ to[i - 1] # <<>> /\ Last(to[i - 1]) = "."
             THEN Append(Front(to[i - 1]), "_") ELSE Append(to[i - 1], name[i])
  IN  to[Len(name)]

Extension(name) ==
  LET dots == {i \in DOMAIN name : name[i] = "."}
      ext == SubSeq(name, Max(dots), Len(name))
  IN  IF dots # {} /\ Len(ext) <= MaxExtRunes /\ Bytes(ext) <= 4 * MaxExtRunes THEN ext ELSE <<>>

\* The longest beginning within both budgets.
Cut_RunesOnly(stem, ext) ==
  SubSeq(stem, 1, Max({n \in 0 .. Len(stem) : n <= MaxNameRunes - Len(ext)}))
Cut(stem, ext) ==
  SubSeq(stem, 1, Max({n \in 0 .. Len(stem) : /\ n <= MaxNameRunes - Len(ext)
                                              /\ Bytes(SubSeq(stem, 1, n)) <= MaxNameBytes - Bytes(ext)}))

truncateFileName_NoExtension(name) == Cut(name, <<>>)
truncateFileName(name) ==
  LET ext == Extension(name)
      stem == TrimRight(Cut(SubSeq(name, 1, Len(name) - Len(ext)), ext), {".", " "})
  IN  (IF stem = <<>> THEN Fallback ELSE stem) \o ext

SanitizeFileName(raw) ==
  LET name == TrimSpace(LastSegment(raw))
      safe == NoDoubleDots([i \in DOMAIN name |-> IF name[i] = "?" THEN "_" ELSE name[i]])
      short == IF Len(safe) > MaxNameRunes \/ Bytes(safe) > MaxNameBytes
               THEN truncateFileName(safe) ELSE safe
  IN  IF ToSet(name) \subseteq {"."} \/ TrimSpace(short) = <<>> THEN Fallback ELSE TrimSpace(short)
-----------------------------------------------------------------------------
\* CreateArchive and CreateArchivePaste up to Put: the status of the refusal, or
\* 201 and the name stored (the store and the insert may still fail).
Upload(env, storeOn, size, framing, name, head) ==
  LET refused(status) == [status |-> status, name |-> <<>>] IN
  IF size + framing > BodyLimit(env) THEN refused(413)
  ELSE IF ~storeOn THEN refused(503)
  ELSE IF size <= 0 THEN refused(400)
  ELSE IF size > ArchiveMaxMB(env) * MB THEN refused(413)
  ELSE IF DetectArchive(name, head) = "none" THEN refused(400)
  ELSE [status |-> 201, name |-> SanitizeFileName(name)]
-----------------------------------------------------------------------------
(* Properties. *)

\* "so that an archive plus its multipart framing still fits in a request"
\* (config.go): whatever ARCHIVE_MAX_MB says, an archive within the limit that
\* is then in force is never refused for the size of the request's body, and
\* one above it never accepted.
LimitsAgree(env, size, framing) ==
  LET status == Upload(env, TRUE, size, framing, <<"a", ".", "Z">>,
                       [prefix |-> "zip", ustar |-> FALSE]).status
  IN  /\ size \in 1 .. ArchiveMaxMB(env) * MB /\ framing <= MB => status = 201
      /\ status = 201 => size <= ArchiveMaxMB(env) * MB

\* "at most 120 characters and 200 bytes, no path separators or control
\* characters, ... and never empty", nor "..", whatever was cut where.
SafeName(name) ==
  LET safe == SanitizeFileName(name) IN
  /\ safe # <<>> /\ Len(safe) <= MaxNameRunes /\ Bytes(safe) <= MaxNameBytes
  /\ ToSet(safe) \cap {"/", "?"} = {} /\ Head(safe) # " " /\ Last(safe) # " "
  /\ \A i \in 1 .. Len(safe) - 1 : ~(safe[i] = "." /\ safe[i + 1] = ".")

\* An archive that is accepted as of some kind is stored under a name with an
\* extension of that kind, however long the name was; only "..", which is
\* replaced, can take the extension's dot with it.
ExtensionKept(name, head) ==
  LET kind == DetectArchive(name, head)
      base == LastSegment(name)
  IN  kind # "none" /\ ~(\E i \in 1 .. Len(base) - 1 : base[i] = "." /\ base[i + 1] = ".")
      => HasSuffix(SanitizeFileName(name), kind)
=============================================================================
