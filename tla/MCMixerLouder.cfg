\* The process ends before a change is old enough to be saved.
CONSTANTS
    Faders = 2
    Loudest = 1
    SaveCommands = TRUE
SPECIFICATION MixerSpec
PROPERTY NeverLouder
