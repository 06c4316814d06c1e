------------------------------- MODULE Settings -------------------------------
(***************************************************************************)
(* The settings file of the desktop application: every writer reads the    *)
(* whole file, changes its section and writes the whole file, in place.    *)
(*                                                                         *)
(* A section's value is the number of the write that made it, 0 the        *)
(* default.  "page" stands for the values of the settings page's controls. *)
(* The page keeps a copy of the file from when it was shown, and the home  *)
(* page a copy of the options of its scan mode.  A handler is one step: it *)
(* runs on the thread of the user interface.  The program may end while    *)
(* the file is written; the file is then not JSON any more.                *)
(***************************************************************************)
EXTENDS Integers, FiniteSets

CONSTANTS
  OptionModes,   \* the scan modes of the home page, whose options are sections
  FirstMode,     \* the mode it starts with
  MaxWrites      \* bound: changes by the user

ASSUME SettingsAssumption == FirstMode \in OptionModes /\ MaxWrites \in Nat

\* The keys of the file that no scan mode has as its name.
FixedSection == {"page", "preset", "window", "onboarding", "excluded", "warned"}

ASSUME SectionAssumption == OptionModes \cap FixedSection = {}

VARIABLES
  up,        \* the program runs
  file,      \* settings.json: the value of each section, or Torn
  copy,      \* SettingsPage._settings
  controls,  \* the controls of the settings page
  mode,      \* _selected_mode
  options,   \* _scan_options
  onboard,   \* the onboarding dialog is shown
  writes,    \* how many changes the user made
  kept       \* what the user last gave each section, for good

settingsVars == <<up, file, copy, controls, mode, options, onboard, writes, kept>>

Section == FixedSection \cup OptionModes
Default == [s \in Section |-> 0]
Torn    == [torn |-> TRUE]
Stamp   == writes + 1

(* get_settings(): what cannot be parsed is no settings at all.             *)
get_settings == IF file = Torn THEN Default ELSE file

(* save_settings(): the file is truncated, then written; the program may    *)
(* end in between.                                                          *)
save_settings(data) ==
  \/ up' = TRUE  /\ file' = data
  \/ up' = FALSE /\ file' = Torn

SettingsInit ==
  /\ up = TRUE /\ file = Default /\ copy = Default /\ controls = 0
  /\ mode = FirstMode /\ options = 0 /\ onboard = FALSE /\ writes = 0 /\ kept = Default

Change == up /\ writes < MaxWrites /\ writes' = writes + 1

(* What was kept of each section: nothing of a file that is torn.           *)
Keep(s) == kept' = IF file' = Torn THEN Default ELSE [kept EXCEPT ![s] = Stamp]

(* One section changes, the others stay as the file has them.               *)
WriteSection(s) ==
  /\ Change
  /\ save_settings([get_settings EXCEPT ![s] = Stamp])
  /\ Keep(s)

------------------------------------------------------------------------------
(* Variant: the window writes the settings as the page read them. *)
WindowEventStale ==
  /\ Change
  /\ save_settings([copy EXCEPT !["window"] = Stamp])
  /\ Keep("window")
  /\ UNCHANGED <<copy, controls, mode, options, onboard>>

(* _persist_window_state(): the window was moved, resized or closed.        *)
WindowEvent ==
  /\ WriteSection("window")
  /\ UNCHANGED <<copy, controls, mode, options, onboard>>

(* The onboarding dialog: at the start unless it was completed, or from the *)
(* command palette; its end and the palette's reset write the section.      *)
ShowOnboarding ==
  /\ up /\ ~onboard /\ onboard' = TRUE
  /\ UNCHANGED <<up, file, copy, controls, mode, options, writes, kept>>

FinishOnboarding ==
  /\ onboard /\ WriteSection("onboarding") /\ onboard' = FALSE
  /\ UNCHANGED <<copy, controls, mode, options>>

ResetOnboarding ==
  /\ WriteSection("onboarding")
  /\ UNCHANGED <<copy, controls, mode, options, onboard>>

(* add_exclude_path() of the bridge.                                        *)
AddExcludePath ==
  /\ WriteSection("excluded")
  /\ UNCHANGED <<copy, controls, mode, options, onboard>>

(* _ack_root_drive_warning(): one drive is acknowledged once.               *)
AckRootDrive ==
  /\ get_settings["warned"] = 0 /\ WriteSection("warned")
  /\ UNCHANGED <<copy, controls, mode, options, onboard>>

(* A scan option of the home page changes: it is stored for the mode.       *)
EditOption ==
  /\ WriteSection(mode)
  /\ options' = Stamp
  /\ UNCHANGED <<copy, controls, mode, onboard>>

(* Another mode: the options are stored for the mode before, then those of  *)
(* the new one are read.                                                    *)
SelectMode(m) ==
  /\ up /\ m # mode
  /\ save_settings([get_settings EXCEPT ![mode] = options])
  /\ mode' = m
  /\ kept' = IF file' = Torn THEN Default ELSE [kept EXCEPT ![mode] = options]
  /\ options' = get_settings[m]
  /\ UNCHANGED <<copy, controls, onboard, writes>>

------------------------------------------------------------------------------
(* on_show() and _on_cancel() of the settings page: the copy is read anew.  *)
LoadPage ==
  /\ up
  /\ copy' = get_settings /\ controls' = get_settings["page"]
  /\ UNCHANGED <<up, file, mode, options, onboard, writes, kept>>

(* The user changes a control, or picks a preset, which is shown at once    *)
(* and only stored by Save.                                                 *)
EditControl ==
  /\ Change /\ controls' = Stamp
  /\ UNCHANGED <<up, file, copy, mode, options, onboard, kept>>

PickPreset ==
  /\ Change /\ copy' = [copy EXCEPT !["preset"] = Stamp]
  /\ UNCHANGED <<up, file, controls, mode, options, onboard, kept>>

(* _on_save(): the whole copy is written, with what the controls hold.      *)
Save ==
  /\ up
  /\ copy' = [copy EXCEPT !["page"] = controls]
  /\ save_settings(copy')
  /\ kept' = IF file' = Torn THEN Default
             ELSE [kept EXCEPT !["page"] = controls, !["preset"] = copy["preset"]]
  /\ UNCHANGED <<controls, mode, options, onboard, writes>>

(* The program ends, or is started: the start writes the defaults that are  *)
(* missing, shows the onboarding unless completed, and reads the options.   *)
Quit ==
  /\ up /\ up' = FALSE
  /\ UNCHANGED <<file, copy, controls, mode, options, onboard, writes, kept>>

Boot ==
  /\ ~up
  /\ IF file = Torn THEN save_settings(Default) ELSE up' = TRUE /\ file' = file
  /\ copy' = get_settings /\ controls' = get_settings["page"]
  /\ mode' = FirstMode /\ options' = get_settings[FirstMode]
  /\ onboard' = (get_settings["onboarding"] = 0)
  /\ UNCHANGED <<writes, kept>>

SettingsNext ==
  \/ WindowEvent \/ ShowOnboarding \/ FinishOnboarding \/ ResetOnboarding
  \/ AddExcludePath \/ AckRootDrive \/ EditOption \/ \E m \in OptionModes : SelectMode(m)
  \/ LoadPage \/ EditControl \/ PickPreset \/ Save \/ Quit \/ Boot

SettingsSpec == SettingsInit /\ [][SettingsNext]_settingsVars

------------------------------------------------------------------------------
(* What the settings page saved stays until it saves again, whatever the    *)
(* other writers of the file do in between (save_settings() of the bridge   *)
(* writes the whole file for each of them), unless a write was torn.        *)
PageEditsKept ==
  file # Torn => file["page"] = kept["page"] /\ file["preset"] = kept["preset"]

(* The options that the home page holds are those the user last gave the    *)
(* mode it shows, and never those of another mode                           *)
(* (_save_scan_options_for_mode, _load_scan_options_for_mode), as long as   *)
(* the settings page has not written an old copy over them.                 *)
OptionsOfMode == up /\ file # Torn /\ file[mode] = kept[mode] => options = kept[mode]

(* What the user chose in one place survives the writes of the others: the  *)
(* page's own sections stay as saved and the home page shows the options of *)
(* its own mode.  (A Save of the page may itself write old values of the    *)
(* other sections; both parts leave that case out.)                         *)
SettingsKept == PageEditsKept /\ OptionsOfMode
===============================================================================
