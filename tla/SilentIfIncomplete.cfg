CONSTANT MAX_DIAGNOSTICS = 3
SPECIFICATION HierarchySpec
PROPERTY SilentIfIncomplete
