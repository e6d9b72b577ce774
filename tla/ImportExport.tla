--------------------------- MODULE ImportExport ---------------------------
(* The way of a secret's plaintext out of and back into the vault: the form   *)
(* fields of app.js, the export files of vault-io.js, the parsers of          *)
(* import-parse.js and the import loop.  A text is a sequence of the          *)
(* characters the code tells apart ("sp" a blank, "nl" a line break, "q" a    *)
(* quote, "comma" and "semi" the separators, "://" after a scheme, "ref" the  *)
(* six letters &quot; for every character reference of HTML); a JSON or XML   *)
(* file is the value it holds.                                                *)
EXTENDS Naturals, Sequences, FiniteSets, SequencesExt, FiniteSetsExt

CONSTANTS
    Chars,          \* the characters of the texts
    Forms,          \* what a user may put into the form of a new secret
    Folders,        \* folders other clients give a row
    Logins,         \* entries of other programs' files
    MaxRows,        \* bound: rows of one export
    MaxPosts        \* bound: secrets created by imports

Text == Seq(Chars)
SlotTypes == {"url", "totp", "notes", "tags", "favorite", "text", "secret", "ssh_private_key", "ssh_public_key",
              "s3_access_key", "s3_secret_key", "certificate"}
SlotRow == [type : SlotTypes, label : Text, value : Text]
FormRow == [title : Text, slots : Seq(SlotRow),
            core : [username : Text, password : Text, tagsInput : Text]]
LoginRow == [title : Text, username : Text, password : Text, url : Text, notes : Text, totp : Text, folder : Text,
             typed : BOOLEAN]

ASSUME ImportExportAssumption ==
    /\ {"L", "t", "0", "1", "q", "comma", "semi", "sp", "nl"} \subseteq Chars
    /\ Forms \subseteq FormRow /\ Folders \subseteq Text /\ Logins \subseteq LoginRow
    /\ MaxRows \in Nat /\ MaxPosts \in Nat

VARIABLES
    rows,           \* the decrypted rows an export is made of
    logins,         \* the entries the file of another program was made of
    file,           \* the file on disk
    pending,        \* the items of the preview
    todo,           \* the items of the preview the loop has still to post
    saved,          \* the secrets the loops created
    step            \* where the dialogue stands

vars == <<rows, logins, file, pending, todo, saved, step>>

OrElse(a, b) == IF a # <<>> THEN a ELSE b
Names == {"username", "password", "urls", "notes", "totp_seed", "favorite"}

-----------------------------------------------------------------------------
(* Strings.                                                                  *)
\* The members of a sequence that are not in S, in their order.
Without(s, S) ==
    LET kept[n \in 0 .. Len(s)] ==
          IF n = 0 THEN <<>> ELSE IF s[n] \in S THEN kept[n - 1] ELSE Append(kept[n - 1], s[n])
    IN kept[Len(s)]

Trim(t) == LET kept == {i \in DOMAIN t : t[i] \notin {"sp", "nl"}}
           IN IF kept = {} THEN <<>> ELSE SubSeq(t, Min(kept), Max(kept))
TrimAll(ts) == [i \in DOMAIN ts |-> Trim(ts[i])]
NotEmpty(ts) == Without(ts, {<<>>})
\* The part a character belongs to is the last so far.
Extended(parts, c, seps) ==
    IF c \in seps THEN Append(parts, <<>>) ELSE [parts EXCEPT ![Len(parts)] = Append(@, c)]
Split(t, seps) ==
    LET parts[n \in 0 .. Len(t)] == IF n = 0 THEN << <<>> >> ELSE Extended(parts[n - 1], t[n], seps)
    IN parts[Len(t)]
Join(ts, sep) ==
    LET joined[n \in 0 .. Len(ts)] ==
          IF n = 0 THEN <<>> ELSE IF n = 1 THEN ts[1] ELSE joined[n - 1] \o sep \o ts[n]
    IN joined[Len(ts)]

HostFromUrl(t) == LET u == Trim(t) IN
    IF u # <<>> /\ Head(u) = "://" THEN Head(Split(Tail(u), {"/", ":"})) ELSE <<>>
SplitUrls(t) == NotEmpty(TrimAll(Split(t, {"semi", "nl"})))
ParseTagsInput(t) == NotEmpty(TrimAll(Split(t, {"comma"})))
\* The first of equal tags stays.
AddTag(out, t) == IF t = <<>> \/ Contains(out, t) THEN out ELSE Append(out, t)
Distinct(ts) ==
    LET out[n \in 0 .. Len(ts)] == IF n = 0 THEN <<>> ELSE AddTag(out[n - 1], ts[n]) IN out[Len(ts)]
MergeTags(a, b) == Distinct(a \o b)
MergeFolderIntoTags(p, folder) ==
    IF Trim(folder) = <<>> THEN p ELSE [p EXCEPT !.tags = MergeTags(@, <<Trim(folder)>>)]

NormalizeSecretPayload(p) ==
    [p EXCEPT !.urls = NotEmpty(TrimAll(@)), !.totp_seed = Trim(@), !.tags = NotEmpty(TrimAll(@))]

-----------------------------------------------------------------------------
(* The form: a row of typed slots; an input of one line drops line breaks.   *)
Singletons == {"totp", "notes", "tags", "favorite"}
Labelled == {"text", "secret"}
Lines == {"notes", "ssh_private_key", "ssh_public_key", "certificate"}
Slot(type, label, value) == [type |-> type, label |-> label, value |-> value]
DefaultLabel == <<"L">>

\* addExtraSlot refuses a second slot of a singleton type; the label and the
\* value are those of the inputs.
AddExtraSlot(list, s) ==
    IF s.type \in Singletons /\ \E i \in DOMAIN list : list[i].type = s.type THEN list
    ELSE Append(list, [s EXCEPT !.label = IF s.type \in Labelled THEN OrElse(@, DefaultLabel) ELSE DefaultLabel,
                                !.value = IF s.type \in Lines THEN @ ELSE Without(@, {"nl"})])

\* The label a slot is made with goes into the value attribute of its HTML:
\* a quote becomes a reference, and the browser reads every reference as the
\* character it stands for, the user's own included.
AsAttribute(t) == [i \in DOMAIN t |-> IF t[i] = "q" THEN "ref" ELSE t[i]]
AttributeRead(t) == [i \in DOMAIN t |-> IF t[i] = "ref" THEN "q" ELSE t[i]]
Prefilled(s) == [s EXCEPT !.label = AttributeRead(AsAttribute(@))]
PrefilledAll(list) == [i \in DOMAIN list |-> Prefilled(list[i])]

AddAll(list) ==
    LET slots[n \in 0 .. Len(list)] == IF n = 0 THEN <<>> ELSE AddExtraSlot(slots[n - 1], list[n])
    IN slots[Len(list)]

Values(type, list) ==
    LET of == Without(list, {s \in ToSet(list) : s.type # type}) IN [i \in DOMAIN of |-> of[i].value]
LastOf(type, list) == IF Values(type, list) = <<>> THEN <<>> ELSE Last(Values(type, list))

CollectPayload(list, core) ==
    LET extra == Without(list, {s \in ToSet(list) : s.type \in Singletons \cup {"url"}})
    IN [username |-> core.username, password |-> core.password,
        urls |-> NotEmpty(TrimAll(Values("url", list))),
        totp_seed |-> Trim(LastOf("totp", list)), notes |-> LastOf("notes", list),
        tags |-> MergeTags(ParseTagsInput(LastOf("tags", list)), ParseTagsInput(core.tagsInput)),
        favorite |-> LastOf("favorite", list) = <<"1">>,
        extra |-> [i \in DOMAIN extra |-> [extra[i] EXCEPT !.label = OrElse(Trim(@), <<"t">>)]]]

\* Fault: extra fields with an empty value are left out of the form.
HydrateFilled(p) ==
    AddAll([i \in DOMAIN p.urls |-> Slot("url", <<>>, p.urls[i])]
           \o <<Slot("totp", <<>>, p.totp_seed), Slot("notes", <<>>, p.notes),
                Slot("favorite", <<>>, IF p.favorite THEN <<"1">> ELSE <<"0">>)>>
           \o PrefilledAll(Without(p.extra, {e \in ToSet(p.extra) : e.value = <<>>})))
Filled(type, value) == IF value = <<>> THEN <<>> ELSE <<Slot(type, <<>>, value)>>
HydrateExtraSlots(p) ==
    AddAll([i \in DOMAIN p.urls |-> Slot("url", <<>>, p.urls[i])]
           \o Filled("totp", p.totp_seed) \o Filled("notes", p.notes)
           \o Filled("favorite", IF p.favorite THEN <<"1">> ELSE <<>>)
           \o PrefilledAll(p.extra))

\* dedit fills the form from the payload, dsave reads it back.
Resaved(p) == NormalizeSecretPayload(CollectPayload(HydrateExtraSlots(NormalizeSecretPayload(p)),
    [username |-> p.username, password |-> p.password, tagsInput |-> Join(p.tags, <<"comma", "sp">>)]))

-----------------------------------------------------------------------------
(* Export.                                                                   *)
\* Fault: the extra fields are not written.
ExportItemWithoutExtra(title, p) ==
    [f \in DOMAIN p \cup {"title"} |-> IF f = "title" THEN title ELSE IF f = "extra" THEN <<>> ELSE p[f]]
ExportItem(title, p) == [f \in DOMAIN p \cup {"title"} |-> IF f = "title" THEN title ELSE p[f]]

\* collectDecryptedExportItems puts the folder among the tags.
ExportItems == [i \in DOMAIN rows |->
    ExportItem(rows[i].title, MergeFolderIntoTags(NormalizeSecretPayload(rows[i].payload), rows[i].folder))]

\* Folders are made from collection ids; rows exported by the app have none.
BitwardenItem(it) ==
    [type |-> 1, name |-> it.title, folder |-> <<>>, favorite |-> it.favorite, notes |-> it.notes,
     login |-> [username |-> it.username, password |-> it.password, totp |-> it.totp_seed, uris |-> it.urls]]

Doubled(t) ==
    LET doubled[n \in 0 .. Len(t)] ==
          IF n = 0 THEN <<>> ELSE doubled[n - 1] \o (IF t[n] = "q" THEN <<"q", "q">> ELSE <<t[n]>>)
    IN doubled[Len(t)]
CsvEscape(t) == <<"q">> \o Doubled(t) \o <<"q">>

CsvHeader == <<"title", "username", "password", "url", "urls", "folder", "notes", "totp", "tags", "favorite">>
\* Fault: the tags are separated as the addresses are.
CsvCellsSemicolon(it) ==
    <<it.title, it.username, it.password, IF it.urls = <<>> THEN <<>> ELSE it.urls[1], Join(it.urls, <<"semi">>), <<>>,
      it.notes, it.totp_seed, Join(it.tags, <<"semi">>), IF it.favorite THEN <<"1">> ELSE <<"0">> >>
CsvCells(it) ==
    <<it.title, it.username, it.password, IF it.urls = <<>> THEN <<>> ELSE it.urls[1], Join(it.urls, <<"semi">>), <<>>,
      it.notes, it.totp_seed, Join(it.tags, <<"comma">>), IF it.favorite THEN <<"1">> ELSE <<"0">> >>
CsvText(cells) == \* one line per row
    Join([i \in DOMAIN cells |-> Join([j \in DOMAIN cells[i] |-> CsvEscape(cells[i][j])], <<"comma">>)], <<"nl">>)

File(format, header, text, items) == [format |-> format, header |-> header, text |-> text, items |-> items]
NoFile == File("none", <<>>, <<>>, <<>>)
Own == {"teamvault-export", "teamvault-backup"}
\* wrapBackup encrypts the JSON export under a password of its own.
Wrapped == File("teamvault-backup", <<>>, <<>>, ExportItems)
Written(format) ==
    CASE format = "bitwarden-json" ->
           File(format, <<>>, <<>>, [i \in DOMAIN rows |-> BitwardenItem(ExportItems[i])])
      [] format = "csv" ->
           File(format, CsvHeader, CsvText([i \in DOMAIN rows |-> CsvCells(ExportItems[i])]), <<>>)
      [] OTHER -> File(format, <<>>, <<>>, ExportItems)

-----------------------------------------------------------------------------
(* The files of other programs.                                              *)
\* Headers with the field of a login each column holds.
Layout ==
    [chrome |-> <<"name", "title", "url", "url", "username", "username", "password", "password", "note", "notes">>,
     firefox |-> <<"url", "url", "username", "username", "password", "password", "httpRealm", "none">>,
     lastpass |-> <<"url", "url", "username", "username", "password", "password", "totp", "totp", "extra", "notes",
                    "name", "title", "grouping", "folder">>,
     onepassword |-> <<"Title", "title", "Url", "url", "Username", "username", "Password", "password",
                       "OTPAuth", "totp", "Notes", "notes">>,
     keepassxc |-> <<"Group", "folder", "Title", "title", "Username", "username", "Password", "password",
                     "URL", "url", "Notes", "notes", "TOTP", "totp">>]
Columns(program) == [i \in 1..(Len(Layout[program]) \div 2) |-> <<Layout[program][2 * i - 1], Layout[program][2 * i]>>]
ForeignFile(program, l) ==
    CASE program \in DOMAIN Layout ->
           LET c == Columns(program)
           IN File("csv", [i \in DOMAIN c |-> c[i][1]],
                   CsvText(<< [i \in DOMAIN c |-> IF c[i][2] = "none" THEN <<>> ELSE l[c[i][2]]] >>), <<>>)
      [] program = "keepass" -> \* an entry below nested groups
           File("keepass-xml", <<>>, <<>>, <<[path |-> << <<"R">>, l.folder >>, strings |->
               [Title |-> l.title, UserName |-> l.username, Password |-> l.password, URL |-> l.url,
                Notes |-> l.notes, otp |-> <<>>, TOTP |-> l.totp]]>>)
      [] program = "proton" ->
           File("proton-pass", <<>>, <<>>, <<[vault |-> l.folder, name |-> l.title, note |-> l.notes,
               itemUsername |-> <<>>, itemEmail |-> l.username, password |-> l.password, urls |-> <<l.url>>, totpUri |-> l.totp]>>)
      [] program = "pux" -> \* loginFields carry a designation, and a type or none
           File("1password-pux", <<>>, <<>>, <<[vault |-> l.folder, title |-> l.title, url |-> l.url, notes |-> l.notes,
               fields |-> << [designation |-> "username", typed |-> l.typed, value |-> l.username],
                             [designation |-> "password", typed |-> l.typed, value |-> l.password] >>]>>)
Programs == DOMAIN Layout \cup {"keepass", "proton", "pux"}

-----------------------------------------------------------------------------
(* Parsing.                                                                  *)
\* Missing fields are empty, a missing title is "Import".
Blank == [title |-> <<>>, username |-> <<>>, password |-> <<>>, urls |-> <<>>, notes |-> <<>>,
          totp_seed |-> <<>>, tags |-> <<>>, favorite |-> FALSE, folder |-> <<>>, extra |-> <<>>]
NormalizeItem(raw) ==
    LET r == [f \in DOMAIN Blank |-> IF f \in DOMAIN raw THEN raw[f] ELSE Blank[f]]
    IN [r EXCEPT !.title = OrElse(Trim(@), <<"Import">>), !.urls = NotEmpty(TrimAll(@)),
                 !.totp_seed = Trim(@), !.folder = Trim(@)]

ParseBitwarden(items) ==
    LET logs == Without(items, {it \in ToSet(items) : it.type # 1})
    IN [i \in DOMAIN logs |-> LET l == logs[i].login IN NormalizeItem(
          [title |-> logs[i].name, username |-> l.username, password |-> l.password, urls |-> NotEmpty(l.uris),
           notes |-> logs[i].notes, totp_seed |-> l.totp, folder |-> logs[i].folder, favorite |-> logs[i].favorite])]

\* A quote inside quotes is escaped by another one; any other toggles.
Scan(s, c) ==
    CASE c = "q" /\ s.escape -> [s EXCEPT !.cells[Len(s.cells)] = Append(@, c), !.escape = FALSE, !.quoted = TRUE]
      [] c = "q" /\ ~s.escape -> [s EXCEPT !.quoted = ~@, !.escape = s.quoted]
      [] c = "comma" /\ ~s.quoted -> [s EXCEPT !.cells = Append(@, <<>>), !.escape = FALSE]
      [] OTHER -> [s EXCEPT !.cells[Len(s.cells)] = Append(@, c), !.escape = FALSE]
Start == [cells |-> << <<>> >>, quoted |-> FALSE, escape |-> FALSE]
Scanned(line) ==
    LET scanned[n \in 0 .. Len(line)] == IF n = 0 THEN Start ELSE Scan(scanned[n - 1], line[n]) IN scanned[Len(line)]
SplitRow(line) == TrimAll(Scanned(line).cells)

\* Names lose their capitals; a capital after a small letter starts a word.
HeaderName(h) ==
    LET lower == [Title |-> "title", Url |-> "url", URL |-> "url", Username |-> "username", Password |-> "password",
                  Notes |-> "notes", TOTP |-> "totp", OTPAuth |-> "otpauth", Group |-> "group", httpRealm |-> "http_realm"]
    IN IF h \in DOMAIN lower THEN lower[h] ELSE h

\* Fault: a title column is not looked for under its other names.
ColumnNamesStrict ==
    [title |-> <<"title">>, username |-> <<"username">>, password |-> <<"password">>, url |-> <<"url">>,
     notes |-> <<"notes">>, totp_seed |-> <<"totp">>, folder |-> <<"folder">>, tags |-> <<"tags">>, favorite |-> <<"favorite">>]
ColumnNames ==
    [title |-> <<"title", "name", "account", "label">>,
     username |-> <<"username", "user", "login", "login_username", "user_name">>,
     password |-> <<"password", "pass", "login_password">>,
     url |-> <<"url", "uri", "website", "login_uri", "urls", "web_site", "login_url">>,
     notes |-> <<"notes", "note", "comments", "extra", "comment">>,
     totp_seed |-> <<"totp", "otp", "otpauth", "totp_seed", "otp_auth", "one-time_password">>,
     folder |-> <<"folder", "group", "collection", "collection_id", "grouping", "vault">>,
     tags |-> <<"tags", "tag">>, favorite |-> <<"favorite", "fav", "favourite">>]

\* The first name that is a header; among equal headers the first.
Cell(header, field, cells) ==
    LET names == ColumnNames[field]
        name == SelectInSeq(names, LAMBDA n : Contains(header, n))
        at == IF name = 0 THEN 0 ELSE SelectInSeq(header, LAMBDA h : h = names[name])
    IN IF at \in DOMAIN cells THEN cells[at] ELSE <<>>
CsvItem(header, cells) ==
    LET cell(field) == Cell(header, field, cells)
    IN NormalizeItem(
         [title |-> OrElse(cell("title"), OrElse(HostFromUrl(cell("url")), cells[1])), username |-> cell("username"),
          password |-> cell("password"), urls |-> SplitUrls(cell("url")), notes |-> cell("notes"),
          totp_seed |-> cell("totp_seed"), folder |-> cell("folder"), tags |-> ParseTagsInput(cell("tags")),
          favorite |-> cell("favorite") = <<"1">>])
\* Lines come first, cells second: a quoted line break ends a row.
ParseCSV(header, text) ==
    LET all == Split(text, {"nl"})
        lines == Without(all, {l \in ToSet(all) : Trim(l) = <<>>})
        names == [i \in DOMAIN header |-> HeaderName(header[i])]
    IN [i \in DOMAIN lines |-> CsvItem(names, SplitRow(lines[i]))]

\* Fields are found by designation, name or type; the callers name no type,
\* and that equals the type of every field without one.
LoginField(fields, designation) ==
    LET at == SelectInSeq(fields, LAMBDA f : f.designation = designation \/ ~f.typed)
    IN IF at = 0 THEN <<>> ELSE fields[at].value
PuxItem(it) == NormalizeItem(
    [title |-> it.title, urls |-> NotEmpty(<<it.url>>), notes |-> it.notes, folder |-> it.vault,
     username |-> LoginField(it.fields, "username"), password |-> LoginField(it.fields, "password"),
     totp_seed |-> LoginField(it.fields, "totp")])
ProtonItem(it) == NormalizeItem(
    [title |-> it.name, urls |-> it.urls, notes |-> it.note, folder |-> it.vault, totp_seed |-> it.totpUri,
     username |-> OrElse(it.itemUsername, it.itemEmail), password |-> it.password])
KeePassItem(it) == LET s == it.strings IN NormalizeItem(
    [title |-> s.Title, username |-> s.UserName, password |-> s.Password, urls |-> SplitUrls(s.URL), notes |-> s.Notes,
     totp_seed |-> OrElse(s.otp, s.TOTP), folder |-> Join(it.path, <<"/">>)])

\* detectAndParse, parseJSON: the kind of a file is seen from what it holds.
Parsed(f) ==
    CASE f.format = "csv" -> ParseCSV(f.header, f.text)
      [] f.format = "bitwarden-json" -> ParseBitwarden(f.items)
      [] f.format = "1password-pux" -> [i \in DOMAIN f.items |-> PuxItem(f.items[i])]
      [] f.format = "proton-pass" -> [i \in DOMAIN f.items |-> ProtonItem(f.items[i])]
      [] f.format = "keepass-xml" -> [i \in DOMAIN f.items |-> KeePassItem(f.items[i])]
      [] OTHER -> [i \in DOMAIN f.items |-> NormalizeItem(f.items[i])]

\* unwrapBackup: what the password opens is a TeamVault export.
Unwrapped(f) == [i \in DOMAIN f.items |-> NormalizeItem(f.items[i])]

\* What importNormalizedItems encrypts and posts for one item.
Imported(it) ==
    [title |-> it.title,
     payload |-> NormalizeSecretPayload(
        [username |-> it.username, password |-> it.password, urls |-> it.urls, notes |-> it.notes,
         totp_seed |-> it.totp_seed, tags |-> MergeTags(it.tags, ParseTagsInput(it.folder)),
         favorite |-> it.favorite, extra |-> it.extra])]

-----------------------------------------------------------------------------
Init ==
    /\ rows = <<>> /\ logins = <<>> /\ file = NoFile
    /\ pending = <<>> /\ todo = {} /\ saved = <<>> /\ step = "idle"

\* A secret made with the form, perhaps put into a folder by another client.
Create ==
    /\ step = "idle" /\ Len(rows) < MaxRows
    /\ \E f \in Forms, folder \in Folders :
         /\ Trim(f.title) # <<>>
         /\ rows' = Append(rows, [title |-> Trim(f.title), folder |-> folder, payload |->
                        NormalizeSecretPayload(CollectPayload(AddAll(f.slots), f.core))])
    /\ UNCHANGED <<logins, file, pending, todo, saved, step>>

Export ==
    /\ step = "idle" /\ rows # <<>>
    /\ \E format \in {"teamvault-export", "bitwarden-json", "csv"} : file' = Written(format)
    /\ step' = "file"
    /\ UNCHANGED <<rows, logins, pending, todo, saved>>

Backup ==
    /\ step = "idle" /\ rows # <<>>
    /\ file' = Wrapped /\ step' = "file"
    /\ UNCHANGED <<rows, logins, pending, todo, saved>>

Receive ==
    /\ step = "idle" /\ rows = <<>>
    /\ \E l \in Logins, program \in Programs :
         logins' = <<[program |-> program, login |-> l]>> /\ file' = ForeignFile(program, l)
    /\ step' = "file"
    /\ UNCHANGED <<rows, pending, todo, saved>>

\* simport.onchange; a backup waits for its password.
Choose ==
    /\ step = "file"
    /\ IF file.format = "teamvault-backup" THEN step' = "locked" /\ UNCHANGED pending
       ELSE step' = "preview" /\ pending' = Parsed(file)
    /\ UNCHANGED <<rows, logins, file, todo, saved>>

Unlock ==
    /\ step = "locked"
    /\ step' = "preview" /\ pending' = Unwrapped(file)
    /\ UNCHANGED <<rows, logins, file, todo, saved>>

Run ==
    /\ step = "preview"
    /\ todo' \in SUBSET (DOMAIN pending) \ {{}}
    /\ step' = "importing"
    /\ UNCHANGED <<rows, logins, file, pending, saved>>

\* bak_restore: the whole of the file, with no preview.
Restore ==
    /\ step = "file" /\ file.format \in Own
    /\ pending' = (IF file.format = "teamvault-backup" THEN Unwrapped(file) ELSE Parsed(file))
    /\ todo' = DOMAIN pending'
    /\ step' = "restoring"
    /\ UNCHANGED <<rows, logins, file, saved>>

\* Fault: what was posted stays in the preview.
WipedKept(it) == it
Wiped(it) == [it EXCEPT !.password = <<>>, !.totp_seed = <<>>, !.notes = <<>>]

\* In the order of the preview.  A failed item is counted, wiped and passed over.
Post ==
    /\ step \in {"importing", "restoring"} /\ Len(saved) < MaxPosts
    /\ \E i \in todo :
         /\ \A j \in todo : i <= j
         /\ saved' \in {saved, Append(saved, [of |-> i, by |-> step, secret |-> Imported(pending[i])])}
         /\ pending' = [pending EXCEPT ![i] = Wiped(@)]
         /\ todo' = todo \ {i}
    /\ UNCHANGED <<rows, logins, file, step>>

Finish ==
    /\ step \in {"importing", "restoring"} /\ todo = {}
    /\ pending' = <<>> /\ step' = "done"
    /\ UNCHANGED <<rows, logins, file, todo, saved>>

\* The list does not load afterwards: the button is enabled again and the
\* preview stays; a restore still has its file.
FinishFailed ==
    /\ step \in {"importing", "restoring"} /\ todo = {} /\ Len(saved) < MaxPosts
    /\ step' = IF step = "importing" THEN "preview" ELSE "file"
    /\ UNCHANGED <<rows, logins, file, pending, todo, saved>>

Next == Create \/ Export \/ Backup \/ Receive \/ Choose \/ Unlock \/ Run \/ Restore \/ Post \/ Finish \/ FinishFailed
Spec == Init /\ [][Next]_vars

-----------------------------------------------------------------------------
Kept(r) == [title |-> r.title, payload |-> MergeFolderIntoTags(r.payload, r.folder)]
\* Posted before it was wiped: every secret of the forms has a password.
Whole(k) == saved[k].secret.payload.password # <<>>

\* The loop posts items of the preview, and every secret has a title.
TypeOK ==
    /\ todo \subseteq DOMAIN pending
    /\ \A i \in DOMAIN pending : DOMAIN pending[i] = DOMAIN Blank /\ pending[i].title # <<>>
    /\ \A k \in DOMAIN saved : saved[k].secret.title # <<>>

\* docs/user-guide.md:182, 185: a TeamVault export, plain or encrypted, brings
\* back every secret as the form made it, extra fields included, and the folder
\* as a tag (vault-io.js toExportItems, app.js importNormalizedItems).
BackupRestores ==
    file.format \in Own => \A k \in DOMAIN saved : Whole(k) => saved[k].secret = Kept(rows[saved[k].of])

\* docs/user-guide.md:183: a Bitwarden export keeps the login of every secret.
\* A CSV export brings back the texts, whatever quotes and separators they hold,
\* when none has a line break or blanks at its ends and no folder has a comma
\* (vault-io.js toBitwardenJSON, csvEscape, import-parse.js parseBitwarden,
\* splitRow and parseCSV).
BitwardenKeeps ==
    file.format = "bitwarden-json" => \A k \in DOMAIN saved : Whole(k) =>
        LET r == rows[saved[k].of]
            s == saved[k].secret
        IN s.title = r.title /\ \A f \in Names : s.payload[f] = r.payload[f]
TextsOf(r) == {r.title, r.payload.username, r.payload.password, r.payload.notes}
             \cup ToSet(r.payload.urls) \cup ToSet(r.payload.tags)
FitsCsv(r) == /\ \A t \in TextsOf(r) : Trim(t) = t /\ ~Contains(t, "nl")
              /\ ~Contains(r.folder, "comma") /\ ~Contains(r.folder, "nl")
CsvKeeps ==
    file.format = "csv" /\ logins = <<>> /\ (\A i \in DOMAIN rows : FitsCsv(rows[i])) =>
        \A k \in DOMAIN saved : Whole(k) =>
            LET r == Kept(rows[saved[k].of])
                s == saved[k].secret
            IN s.title = r.title /\ \A f \in (Names \cup {"tags"}) \ {"urls"} : s.payload[f] = r.payload[f]
OtherFormatsKeep == BitwardenKeeps /\ CsvKeeps

\* docs/user-guide.md:167-171: the files of the other programs bring title,
\* user name, password, address, notes and seed of a login, each in its field,
\* when no text has a line break or blanks at its ends and the address is one
\* (import-parse.js parseCSV, walkKeePassGroup, parseProtonPass).
FitsFile(l) == /\ \A t \in {l.title, l.username, l.password, l.url, l.notes, l.totp, l.folder} :
                    Trim(t) = t /\ ~Contains(t, "nl")
               /\ l.url # <<>> /\ ~Contains(l.url, "semi")
LoginsArrive ==
    logins # <<>> /\ step = "preview" /\ logins[1].program # "pux" /\ FitsFile(logins[1].login) =>
        LET l == logins[1].login
            it == pending[1]
        IN \/ it = Wiped(it)
           \/ /\ it.username = l.username /\ it.password = l.password /\ it.urls = <<l.url>>
              /\ l.title # <<>> /\ logins[1].program # "firefox" => it.title = l.title
              /\ logins[1].program \in {"lastpass", "onepassword", "keepassxc", "keepass", "proton"} =>
                   it.totp_seed = l.totp /\ it.notes = l.notes

\* A second click of the import button after a list that did not load posts
\* no item in full again (app.js importNormalizedItems, simportRun).
ImportedOnce ==
    \A i, j \in DOMAIN saved :
        saved[i].of = saved[j].of /\ saved[i].by = "importing" /\ saved[j].by = "importing" /\ Whole(i) /\ Whole(j) => i = j

\* Opening a secret the form made and saving it unchanged keeps every field, and
\* of the extra fields number, order, types, values and every label with no
\* character reference in it; a label with one is saved as another (app.js dedit,
\* hydrateExtraSlots, addExtraSlot, dsave, collectPayloadFromSlots).
SavedAs(p, r) ==
    /\ \A f \in DOMAIN p \ {"extra"} : r[f] = p[f]
    /\ DOMAIN r.extra = DOMAIN p.extra
    /\ \A k \in DOMAIN p.extra :
         /\ r.extra[k].type = p.extra[k].type /\ r.extra[k].value = p.extra[k].value
         /\ ~Contains(p.extra[k].label, "ref") => r.extra[k].label = p.extra[k].label
EditKeepsPayload == \A i \in DOMAIN rows : SavedAs(rows[i].payload, Resaved(rows[i].payload))

\* docs/user-guide.md:170 names 1Password's 1PUX among the supported formats:
\* the password of an item is the password of the secret.
PuxKeepsPassword ==
    \A k \in DOMAIN saved : logins # <<>> /\ logins[1].program = "pux" /\ Whole(k) =>
        saved[k].secret.payload.password = logins[1].login.password
===========================================================================
