SPECIFICATION Spec
CONSTANTS
  Sectors <- MCSectors
  Words <- MCWords
  Numbers <- MCNumbers
  EventWords <- MCEventWords
  Tracks <- MCTracks
  Hours <- MCHours
  Zones <- MCZones
INVARIANTS Understood SaysWhatIsMeant AllUnderstood
