CONSTANT MaxStarts = 2
SPECIFICATION Spec
PROPERTY DeferredRemoveOwnsFile
