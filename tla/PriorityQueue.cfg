SPECIFICATION QueueSpec
CONSTANTS
  Item <- MCItem
  None <- MCNone
INVARIANT HeapIsKnown
PROPERTY ImplementsRemovableQueue
