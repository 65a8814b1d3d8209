---------------------------- MODULE SettingsStore ----------------------------
(***************************************************************************)
(* The settings: one stored document, read and written by SettingsService  *)
(* in every running window, each with a cache that it fills once.  An      *)
(* update merges changes into the cache, saves the merged document and     *)
(* then replaces the cache.  Two pages work on top of it: the form of the  *)
(* settings page, loaded when it is built and after an import, and the     *)
(* table of backup profiles, whose rows are changed by their position.     *)
(***************************************************************************)
EXTENDS Integers, Sequences, FiniteSets

CONSTANTS
    Window,     \* desktop windows (processes) on the same database
    Nothing,    \* no stored row; no cache; no pending update; no dialog
    Corrupt,    \* a stored document that does not validate
    Field,      \* what the user may type into the form: a set of partial forms
    Document,   \* settings files a user may import
    BaseName,   \* names of folders to make profiles of
    MaxUpdate   \* bound: updates of the stored document

VARIABLES
    stored,     \* the stored document
    writer,     \* who wrote it last (history)
    updates,    \* how often (bounds the model)
    cache,      \* cache[w]: the settings that window w works with
    saving,     \* saving[w]: an update that is saved and not yet cached
    page,       \* page[w]: the page that is shown, or "down"
    form,       \* form[w]: what the form of the settings page shows
    edited,     \* edited[w]: the fields the user changed since (history)
    table,      \* table[w]: the rows of the profile table
    asking,     \* asking[w]: the row whose deletion is being confirmed
    behind      \* behind[w]: what an update left as it was, because it could not
                \* be recorded: the form, the table (history)

settingsVars == <<stored, writer, updates, cache, saving, page, form, edited,
                  table, asking, behind>>

(* AppSettings. Thresholds are in tenths of a percent, as they are floats. A
   profile's name is a base name and a number; the first has none, written 1. *)
Defaults == [theme |-> "system",
             disk |-> [warning |-> 800, critical |-> 900],
             api |-> [host |-> "127.0.0.1", enabled |-> FALSE],
             profiles |-> << >>]

Valid(s) ==
    /\ s.disk.warning \in 10 .. 1000 /\ s.disk.critical \in 10 .. 1000
    /\ s.disk.warning <= s.disk.critical

Theme == {"light", "dark", "system"}
Host == {Defaults.api.host} \union {d.api.host : d \in Document}
Percent == 10 .. 1000
Profile == [name : STRING \X Nat, on : BOOLEAN]
Settings == [theme : Theme, disk : [warning : Percent, critical : Percent],
             api : [host : Host, enabled : BOOLEAN], profiles : Seq(Profile)]

\* The form has boxes for whole numbers of percents.
FormPercent == {10 * p : p \in 1 .. 100}
Form == [theme : Theme, warning : FormPercent, critical : FormPercent, api : BOOLEAN]

Pending == [new : Settings, caller : {"save", "import", "profiles"}]

Names(profiles) == {profiles[i].name : i \in DOMAIN profiles}

ASSUME SettingsAssumption ==
    /\ MaxUpdate \in Nat /\ BaseName \subseteq STRING
    /\ Nothing \notin Settings \union Pending \union Window \union Nat \union {Corrupt}
    /\ Corrupt \notin Settings
    /\ Document \subseteq Settings
    /\ \A f \in Field : DOMAIN f \subseteq {"theme", "warning", "critical", "api"} /\
         \A k \in DOMAIN f : f[k] \in IF k = "theme" THEN Theme
                                     ELSE IF k = "api" THEN BOOLEAN ELSE FormPercent

SettingsInit ==
    /\ stored \in {Nothing, Corrupt, Defaults}
    /\ writer = Nothing /\ updates = 0
    /\ cache = [w \in Window |-> Nothing]
    /\ saving = [w \in Window |-> Nothing]
    /\ page = [w \in Window |-> "down"]
    /\ form = [w \in Window |-> Nothing]
    /\ edited = [w \in Window |-> {}]
    /\ table = [w \in Window |-> << >>]
    /\ asking = [w \in Window |-> Nothing]
    /\ behind = [w \in Window |-> {}]

-----------------------------------------------------------------------------
(* SettingsService *)

\* get(), when nothing is cached: what is missing or invalid gives the defaults.
Loaded == IF stored \in {Nothing, Corrupt} THEN Defaults ELSE stored

Over(f, g) == [k \in DOMAIN f \union DOMAIN g |-> IF k \in DOMAIN f THEN f[k] ELSE g[k]]

\* Bug: the nested sections are replaced instead of merged.
ShallowMerge(base, override) == Over(override, base)

\* _deep_merge: the sections are merged key by key.
DeepMerge(base, override) ==
    Over([k \in DOMAIN override |->
            IF k \in {"disk", "api"} THEN Over(override[k], base[k]) ELSE override[k]], base)

(* update(), up to the save. An invalid result raises before anything is
   stored. What the caller does with the new settings comes after the cache. *)
Save(w, changes, caller) ==
    LET new == DeepMerge(cache[w], changes)
    IN  /\ Valid(new)
        /\ updates < MaxUpdate /\ updates' = updates + 1
        /\ stored' = new
        /\ writer' = w
        /\ saving' = [saving EXCEPT ![w] = [new |-> new, caller |-> caller]]

Refused(w, changes) ==
    /\ ~ Valid(DeepMerge(cache[w], changes))
    /\ UNCHANGED <<stored, writer, updates, saving>>

\* int() of a float that is not negative.
Truncated(tenths) == 10 * (tenths \div 10)

\* _load: what the form shows of the settings.
Shown(s) == [theme |-> s.theme,
             warning |-> Truncated(s.disk.warning),
             critical |-> Truncated(s.disk.critical),
             api |-> s.api.enabled]

\* update(), from the cache on.
Cached(w) ==
    /\ saving[w] # Nothing
    /\ cache' = [cache EXCEPT ![w] = saving[w].new]
    /\ saving' = [saving EXCEPT ![w] = Nothing]

\* What a page shows once its update has returned: a save leaves the form as it is,
\* an import loads it, and the backups page fills its table again.
PagesShow(w) ==
    LET profiles == saving[w].caller = "profiles"
    IN  /\ form' = IF saving[w].caller = "import"
                   THEN [form EXCEPT ![w] = Shown(saving[w].new)] ELSE form
        /\ edited' = IF profiles THEN edited ELSE [edited EXCEPT ![w] = {}]
        /\ table' = IF profiles THEN [table EXCEPT ![w] = saving[w].new.profiles] ELSE table
        /\ behind' = [behind EXCEPT ![w] = @ \ {IF profiles THEN "table" ELSE "form"}]
    /\ UNCHANGED <<stored, writer, updates, page, asking>>

\* Bug: the form is not loaded again after an import.
SavedImportKeepsForm(w) ==
    /\ Cached(w)
    /\ IF saving[w].caller = "profiles" THEN PagesShow(w)
       ELSE /\ edited' = [edited EXCEPT ![w] = {}]
            /\ behind' = [behind EXCEPT ![w] = @ \ {"form"}]
            /\ UNCHANGED <<stored, writer, updates, page, form, table, asking>>

\* Bug: the cache is left to be filled by the next window.
SavedWithoutCache(w) ==
    /\ saving[w] # Nothing
    /\ saving' = [saving EXCEPT ![w] = Nothing]
    /\ PagesShow(w)
    /\ UNCHANGED cache

\* The rest of update(), with the activity recorded, and of the handler.
Saved(w) == Cached(w) /\ PagesShow(w)

\* The same when the store fails to record the activity: the exception ends the
\* handler, which only catches ValueError, with the update stored and cached. A
\* form that was saved shows the settings all the same.
SavedUnrecorded(w) ==
    /\ Cached(w)
    /\ LET caller == saving[w].caller
       IN  /\ edited' = IF caller = "save" THEN [edited EXCEPT ![w] = {}] ELSE edited
           /\ behind' = [behind EXCEPT ![w] = IF caller = "save" THEN @ \ {"form"}
                           ELSE @ \union {IF caller = "import" THEN "form" ELSE "table"}]
    /\ UNCHANGED <<stored, writer, updates, page, form, table, asking>>

-----------------------------------------------------------------------------
(* The window and its pages *)

\* The container's build() fills the cache; the window builds every page.
OpenWindow(w) ==
    /\ page[w] = "down"
    /\ cache' = [cache EXCEPT ![w] = Loaded]
    /\ page' = [page EXCEPT ![w] = "dashboard"]
    /\ form' = [form EXCEPT ![w] = Shown(Loaded)]
    /\ edited' = [edited EXCEPT ![w] = {}]
    /\ table' = [table EXCEPT ![w] = << >>]
    /\ behind' = [behind EXCEPT ![w] = {}]
    /\ UNCHANGED <<stored, writer, updates, saving, asking>>

\* Closed or killed, at any moment.
CloseWindow(w) ==
    /\ page[w] # "down"
    /\ page' = [page EXCEPT ![w] = "down"]
    /\ cache' = [cache EXCEPT ![w] = Nothing]
    /\ saving' = [saving EXCEPT ![w] = Nothing]
    /\ asking' = [asking EXCEPT ![w] = Nothing]
    /\ UNCHANGED <<stored, writer, updates, form, edited, table, behind>>

\* Handlers run one at a time, and none while a dialog is open.
Ready(w, p) == page[w] = p /\ saving[w] = Nothing /\ asking[w] = Nothing

Navigate(w, p) ==
    /\ page[w] \notin {"down", p} /\ Ready(w, page[w])
    /\ page' = [page EXCEPT ![w] = p]
    /\ table' = IF p = "backups"
                THEN [table EXCEPT ![w] = cache[w].profiles] ELSE table
    /\ behind' = IF p = "backups" THEN [behind EXCEPT ![w] = @ \ {"table"}] ELSE behind
    /\ UNCHANGED <<stored, writer, updates, cache, saving, form, edited, asking>>

EditForm(w, f) ==
    /\ Ready(w, "settings")
    /\ form' = [form EXCEPT ![w] = Over(f, @)]
    /\ edited' = [edited EXCEPT ![w] = @ \union DOMAIN f]
    /\ UNCHANGED <<stored, writer, updates, cache, saving, page, table, asking,
                   behind>>

\* _on_save: every field of the form, edited or not; the host has none.
FormChanges(w) ==
    [theme |-> form[w].theme,
     api |-> [enabled |-> form[w].api],
     disk |-> [warning |-> form[w].warning, critical |-> form[w].critical]]

SaveForm(w) ==
    /\ Ready(w, "settings")
    /\ Save(w, FormChanges(w), "save") \/ Refused(w, FormChanges(w))
    /\ UNCHANGED <<cache, page, form, edited, table, asking, behind>>

\* A file that is not valid changes nothing; sections it lacks get defaults.
ImportSettings(w, d) ==
    /\ Ready(w, "settings")
    /\ Valid(d)
    /\ Save(w, d, "import")
    /\ UNCHANGED <<cache, page, form, edited, table, asking, behind>>

\* The least number that makes a new name of the base name.
FreshName(base, profiles) ==
    CHOOSE n \in {<<base, i>> : i \in 1 .. Len(profiles) + 1} :
        /\ n \notin Names(profiles)
        /\ \A i \in 1 .. n[2] - 1 : <<base, i>> \in Names(profiles)

AddProfile(w, base) ==
    /\ Ready(w, "backups")
    /\ LET ps == cache[w].profiles
           p == [name |-> FreshName(base, ps), on |-> TRUE]
       IN  Save(w, [profiles |-> Append(ps, p)], "profiles")
    /\ UNCHANGED <<cache, page, form, edited, table, asking, behind>>

\* The row of the table that is selected is a position in the cached list; an
\* index beyond its end would raise.
ToggleProfile(w, i) ==
    /\ Ready(w, "backups")
    /\ i \in DOMAIN table[w] \cap DOMAIN cache[w].profiles
    /\ Save(w, [profiles |-> [cache[w].profiles EXCEPT ![i].on = ~ @]], "profiles")
    /\ UNCHANGED <<cache, page, form, edited, table, asking, behind>>

AskDelete(w, i) ==
    /\ Ready(w, "backups")
    /\ i \in DOMAIN table[w]
    /\ asking' = [asking EXCEPT ![w] = i]
    /\ UNCHANGED <<stored, writer, updates, cache, saving, page, form, edited, table,
                   behind>>

Without(profiles, i) ==
    [j \in 1 .. Len(profiles) - 1 |-> profiles[IF j < i THEN j ELSE j + 1]]

AnswerDelete(w, yes) ==
    /\ asking[w] # Nothing
    /\ asking' = [asking EXCEPT ![w] = Nothing]
    /\ IF yes
       THEN /\ asking[w] \in DOMAIN cache[w].profiles
            /\ Save(w, [profiles |-> Without(cache[w].profiles, asking[w])], "profiles")
       ELSE UNCHANGED <<stored, writer, updates, saving>>
    /\ UNCHANGED <<cache, page, form, edited, table, behind>>

WindowNext(w) ==
    \/ OpenWindow(w) \/ CloseWindow(w)
    \/ \E p \in {"settings", "backups"} : Navigate(w, p)
    \/ \E f \in Field : EditForm(w, f)
    \/ SaveForm(w)
    \/ \E d \in Document : ImportSettings(w, d)
    \/ \E base \in BaseName : AddProfile(w, base)
    \/ \E i \in DOMAIN table[w] : ToggleProfile(w, i) \/ AskDelete(w, i)
    \/ \E yes \in BOOLEAN : AnswerDelete(w, yes)
    \/ Saved(w) \/ SavedUnrecorded(w)

SettingsNext == \E w \in Window : WindowNext(w)

SettingsSpec == SettingsInit /\ [][SettingsNext]_settingsVars

-----------------------------------------------------------------------------
(* Properties *)

SettingsTypeOK ==
    /\ stored \in Settings \union {Nothing, Corrupt} /\ writer \in Window \union {Nothing}
    /\ updates \in 0 .. MaxUpdate
    /\ cache \in [Window -> Settings \union {Nothing}]
    /\ saving \in [Window -> Pending \union {Nothing}]
    /\ page \in [Window -> {"down", "dashboard", "settings", "backups"}]
    /\ form \in [Window -> Form \union {Nothing}]
    /\ edited \in [Window -> SUBSET {"theme", "warning", "critical", "api"}]
    /\ table \in [Window -> Seq(Profile)]
    /\ asking \in [Window -> Nat \union {Nothing}]
    /\ behind \in [Window -> SUBSET {"form", "table"}]

\* Two profiles of a list have one name only if an imported file gave that name to
\* two profiles: import_from takes any file that validates, and names are not
\* compared. The program itself never gives a name twice.
Twice(name, profiles) ==
    \E i, j \in DOMAIN profiles :
        i # j /\ profiles[i].name = name /\ profiles[j].name = name

NamedApart(profiles) ==
    \A n \in Names(profiles) :
        Twice(n, profiles) => \E d \in Document : Twice(n, d.profiles)

\* What is stored after any update, and what a window works with, validates and
\* has all its sections; no two profiles get one name but from an imported file,
\* although windows overwrite each other's lists and names are numbered from the
\* cache, which may hold such a file's list.
Sound(s) ==
    /\ DOMAIN s = DOMAIN Defaults /\ DOMAIN s.disk = DOMAIN Defaults.disk
    /\ DOMAIN s.api = DOMAIN Defaults.api
    /\ Valid(s)
    /\ NamedApart(s.profiles)

SettingsSound ==
    /\ stored \in {Nothing, Corrupt} \/ Sound(stored)
    /\ \A w \in Window : page[w] # "down" => Sound(cache[w])

\* Why: what is being saved is sound, is stored by now unless another window wrote,
\* and belongs to the page that is shown.
SettingsInv ==
    /\ SettingsTypeOK /\ SettingsSound
    /\ writer # Nothing => stored \in Settings
    /\ \A w \in Window :
         /\ page[w] = "down" => saving[w] = Nothing /\ asking[w] = Nothing
         /\ page[w] # "down" => form[w] \in Form
         /\ asking[w] # Nothing => page[w] = "backups" /\ saving[w] = Nothing
         /\ saving[w] # Nothing =>
              /\ Sound(saving[w].new) /\ (writer = w => saving[w].new = stored)
              /\ page[w] = IF saving[w].caller = "profiles" THEN "backups" ELSE "settings"
              /\ saving[w].caller = "save" => Shown(saving[w].new) = form[w]
              /\ saving[w].caller = "profiles" => Shown(saving[w].new) = Shown(cache[w])

\* The window that wrote the document last works with what is stored: an update
\* is neither lost nor half applied in the window that made it, while the caches
\* of others may be out of date.
LastWriterAgrees ==
    \A w \in Window :
        writer = w /\ page[w] # "down" /\ saving[w] = Nothing => cache[w] = stored

\* Saving the form sets only what the user edited, up to the digits behind the
\* decimal point that the form does not show: the rest of the form is current. A
\* profile is toggled or deleted by the position of its row, also after a dialog:
\* the rows on the screen are the list that the position counts in. An update that
\* could not be recorded leaves them behind, until the form is saved or loaded or
\* the table is filled: nothing else does.
PagesCurrent ==
    \A w \in Window : page[w] # "down" =>
        /\ "form" \notin behind[w] =>
             \A f \in DOMAIN form[w] \ edited[w] : form[w][f] = Shown(cache[w])[f]
        /\ page[w] = "backups" /\ "table" \notin behind[w] => table[w] = cache[w].profiles

=============================================================================
